---- MODULE Spec2Model ----
(***************************************************************************)
(* RouteGlyph route engine: the road-graph model, the scoring functions,   *)
(* the in-memory turn-aware shortest-path search and the coverage and      *)
(* shape optimizers, as state machines over small graphs.                  *)
(*                                                                         *)
(* Number representation.  Coordinates are integers in units of 5e-5       *)
(* degree, so that the seed lattice spacings 0.00135 and 0.00175 degree    *)
(* are 27 and 35 units.  Costs are integers in hundredths of a scoring     *)
(* unit and weights in hundredths (distance 1.0 is 100).  Floating-point   *)
(* rounding of the source's doubles is not modelled.                       *)
(***************************************************************************)
EXTENDS Integers, Sequences, FiniteSets, TLC

VARIABLES search, cov, shape, shared, build, osrm, api, seed, areaGraph

vars == <<search, cov, shape, shared, build, osrm, api, seed, areaGraph>>

(***************************************************************************)
(* Generic helpers: optional values, folds, JavaScript Map (insertion      *)
(* ordered, a set of an existing key keeps the key's position).            *)
(***************************************************************************)
None == <<>>

Some(x) == <<x>>

Range(s) == {s[i] : i \in 1..Len(s)}

\* The loop "for i from lo to hi: acc = Body(acc, i)".  The range is halved and
\* the first half is evaluated before the second is entered, so that the
\* evaluation depth is logarithmic in the number of iterations.
RECURSIVE ForLoop(_, _, _, _)
ForLoop(Body(_, _), acc, lo, hi) ==
  IF lo > hi THEN acc
  ELSE IF lo = hi THEN Body(acc, lo)
  ELSE LET mid == (lo + hi) \div 2
           firstHalf == ForLoop(Body, acc, lo, mid)
       IN IF firstHalf = firstHalf THEN ForLoop(Body, firstHalf, mid + 1, hi) ELSE acc

\* items.filter((item, index) => Test(item, index)), indices from 1
SelectSeqIdx(s, Test(_, _)) ==
  LET tagged == [i \in 1..Len(s) |-> [item |-> s[i], index |-> i]]
      kept == SelectSeq(tagged, LAMBDA p : Test(p.item, p.index))
  IN [j \in 1..Len(kept) |-> kept[j].item]

MapSeq(s, Op(_)) == [i \in 1..Len(s) |-> Op(s[i])]

SumSeq(s, Op(_)) == ForLoop(LAMBDA sum, i : sum + Op(s[i]), 0, 1, Len(s))

SetMin(S) == CHOOSE x \in S : \A y \in S : x <= y

Max2(a, b) == IF a >= b THEN a ELSE b

Min2(a, b) == IF a <= b THEN a ELSE b

MapHas(m, k) == \E i \in 1..Len(m) : m[i].k = k

MapGet(m, k) == m[CHOOSE i \in 1..Len(m) : m[i].k = k].v

MapSet(m, k, v) ==
  IF MapHas(m, k)
  THEN [i \in 1..Len(m) |-> IF m[i].k = k THEN [k |-> k, v |-> v] ELSE m[i]]
  ELSE Append(m, [k |-> k, v |-> v])

MapValues(m) == [i \in 1..Len(m) |-> m[i].v]

MapKeys(m) == [i \in 1..Len(m) |-> m[i].k]

MapFromList(list, KeyOf(_)) ==
  ForLoop(LAMBDA m, i : MapSet(m, KeyOf(list[i]), list[i]), <<>>, 1, Len(list))

(***************************************************************************)
(* Integer square root and Math.round(Math.sqrt(dx*dx + dy*dy)).           *)
(***************************************************************************)
RECURSIVE ISqrtBetween(_, _, _)
ISqrtBetween(n, lo, hi) ==
  IF lo >= hi THEN lo
  ELSE LET mid == (lo + hi + 1) \div 2
       IN IF mid * mid <= n THEN ISqrtBetween(n, mid, hi)
          ELSE ISqrtBetween(n, lo, mid - 1)

ISqrt(n) == ISqrtBetween(n, 0, 46340)

\* graph.ts distanceMeters: dx = dLat * 111000, dy = dLon * 85000, rounded norm.
\* With coordinates in 5e-5 degree, dx and dy are in units of 0.05 m.
distanceMeters(a, b) ==
  LET dx == (a.lat - b.lat) * 111
      dy == (a.lon - b.lon) * 85
  IN (ISqrt(dx * dx + dy * dy) + 10) \div 20

(***************************************************************************)
(* graph.ts: the Coordinate and RoadEdge records, createRoadGraph.         *)
(***************************************************************************)
Coord(lat, lon) == [lat |-> lat, lon |-> lon]

Road(id, from, to, name, len, bidi, walk, lit, stress, gain) ==
  [id |-> id, fromNodeId |-> from, toNodeId |-> to, streetName |-> name,
   lengthMeters |-> len, bidirectional |-> bidi, hasSidewalk |-> walk,
   litAtNight |-> lit, trafficStress |-> stress, elevationGainMeters |-> gain]

forwardOf(edge) ==
  [edgeId |-> edge.id, fromNodeId |-> edge.fromNodeId, toNodeId |-> edge.toNodeId,
   lengthMeters |-> edge.lengthMeters, streetName |-> edge.streetName,
   hasSidewalk |-> edge.hasSidewalk, litAtNight |-> edge.litAtNight,
   trafficStress |-> edge.trafficStress,
   elevationGainMeters |-> edge.elevationGainMeters]

\* lines 76-81 with the elevation gain of the reverse edge not negated
reverseKeepingGain(edge) ==
  [forwardOf(edge) EXCEPT !.fromNodeId = edge.toNodeId, !.toNodeId = edge.fromNodeId]

reverseOf(edge) ==
  [forwardOf(edge) EXCEPT !.fromNodeId = edge.toNodeId,
                          !.toNodeId = edge.fromNodeId,
                          !.elevationGainMeters = 0 - edge.elevationGainMeters]

pushTraversable(tf, t) ==
  MapSet(tf, t.fromNodeId,
         Append(IF MapHas(tf, t.fromNodeId) THEN MapGet(tf, t.fromNodeId) ELSE <<>>, t))

createRoadGraph(nodes, edges) ==
  LET pushEdge(tf, i) ==
        LET withForward == pushTraversable(tf, forwardOf(edges[i]))
        IN IF edges[i].bidirectional
           THEN pushTraversable(withForward, reverseOf(edges[i]))
           ELSE withForward
  IN [nodes |-> MapFromList(nodes, LAMBDA n : n.id),
      edges |-> MapFromList(edges, LAMBDA e : e.id),
      traversableFrom |-> ForLoop(pushEdge, <<>>, 1, Len(edges))]

\* graph.traversableFrom.get(nodeId) ?? []
outgoingOf(graph, nodeId) ==
  IF MapHas(graph.traversableFrom, nodeId)
  THEN MapGet(graph.traversableFrom, nodeId) ELSE <<>>

(***************************************************************************)
(* scoring.ts.  Weights are in hundredths; costs in hundredths of a unit.  *)
(***************************************************************************)
DEFAULT_ROUTE_OBJECTIVE_WEIGHTS ==
  [distance |-> 100, elevation |-> 25, turns |-> 40, safety |-> 90, uTurn |-> 120]

\* safetyPenalty * 100: (trafficStress - 1) * 0.35 + 0.7 (no sidewalk) + 0.2 (unlit)
safetyPenalty(edge) ==
  (edge.trafficStress - 1) * 35
    + (IF edge.hasSidewalk THEN 0 ELSE 70)
    + (IF edge.litAtNight THEN 0 ELSE 20)

scoreEdgeTraversal(edge, weights) ==
  edge.lengthMeters * weights.distance
    + Max2(0, edge.elevationGainMeters) * weights.elevation
    + safetyPenalty(edge) * weights.safety

Abs(x) == IF x < 0 THEN 0 - x ELSE x

\* The angle at b between the vectors b->a and b->c, in degrees, resolved to the
\* nearest multiple of 45 (exact whenever the true angle is such a multiple, as
\* on every lattice used here); 0 when either vector is the zero vector.
\* tan 22.5 = 0.414, tan 67.5 = 2.414.
angleBetweenDegrees(a, b, c) ==
  LET v1x == a.lon - b.lon
      v1y == a.lat - b.lat
      v2x == c.lon - b.lon
      v2y == c.lat - b.lat
      dot == v1x * v2x + v1y * v2y
      cross == Abs(v1x * v2y - v1y * v2x)
  IN IF (v1x = 0 /\ v1y = 0) \/ (v2x = 0 /\ v2y = 0) THEN 0
     ELSE IF dot > 0 /\ cross * 1000 < 414 * dot THEN 0
     ELSE IF dot > 0 /\ cross * 1000 < 2414 * dot THEN 45
     ELSE IF dot >= 0 \/ cross * 1000 > 2414 * (0 - dot) THEN 90
     ELSE IF cross * 1000 > 414 * (0 - dot) THEN 135
     ELSE 180

\* (angle / 180) * 100 * turns, plus 100 * uTurn when angle > 165
scoreTurn(previousCoordinate, currentCoordinate, nextCoordinate, weights) ==
  LET angle == angleBetweenDegrees(previousCoordinate, currentCoordinate, nextCoordinate)
      bendPenalty == (angle \div 45) * 25 * weights.turns
      isUTurn == angle > 165
  IN bendPenalty + (IF isUTurn THEN 100 * weights.uTurn ELSE 0)

(***************************************************************************)
(* shortest-path.ts: the in-memory search.                                 *)
(***************************************************************************)
\* `${nodeId}|${previousNodeId ?? "start"}`: string concatenation
createKey(nodeId, previousNodeId) ==
  nodeId \o "|" \o (IF previousNodeId = None THEN "start" ELSE previousNodeId[1])

\* JavaScript truthiness of an optional string: defined and not ""
Truthy(optString) == optString # None /\ optString[1] # ""

RECURSIVE walkBack(_, _)
walkBack(stateMap, currentKey) ==
  IF ~Truthy(currentKey) THEN <<>>
  ELSE IF currentKey[1] \notin DOMAIN stateMap THEN <<>>
  ELSE LET state == stateMap[currentKey[1]]
       IN <<state>> \o walkBack(stateMap, state.parentKey)

Reverse(s) == [i \in 1..Len(s) |-> s[Len(s) + 1 - i]]

\* the viaEdge of the states that have one, in order
viaEdgesOf(states) ==
  MapSeq(SelectSeq(states, LAMBDA st : st.viaEdge # None), LAMBDA st : st.viaEdge[1])

\* the PathResult of a chain of states, first state first
pathResultOf(states) ==
  [nodeIds |-> [i \in 1..Len(states) |-> states[i].nodeId],
   traversedEdges |-> viaEdgesOf(states),
   totalDistanceMeters |->
     IF Len(states) = 0 THEN 0 ELSE states[Len(states)].distanceMeters,
   totalCost |-> IF Len(states) = 0 THEN 0 ELSE states[Len(states)].cost]

reconstructPath(stateMap, finalKey) ==
  pathResultOf(Reverse(walkBack(stateMap, Some(finalKey))))

\* open.sort((a, b) => a.cost - b.cost): a stable sort, ascending cost
\* insertion after the elements whose cost is not greater
insertByCost(sorted, st) ==
  LET k == Cardinality({j \in 1..Len(sorted) : sorted[j].cost <= st.cost})
  IN SubSeq(sorted, 1, k) \o <<st>> \o SubSeq(sorted, k + 1, Len(sorted))

sortByCost(open) ==
  ForLoop(LAMBDA sorted, i : insertByCost(sorted, open[i]), <<>>, 1, Len(open))

\* the turn term of the relaxation: added only when the current state has a
\* (truthy) previous node and all three nodes are in the node map
turnTerm(graph, current, nextNodeId, weights) ==
  IF Truthy(current.previousNodeId)
       /\ MapHas(graph.nodes, current.previousNodeId[1])
       /\ MapHas(graph.nodes, current.nodeId)
       /\ MapHas(graph.nodes, nextNodeId)
  THEN scoreTurn(MapGet(graph.nodes, current.previousNodeId[1]).coordinate,
                 MapGet(graph.nodes, current.nodeId).coordinate,
                 MapGet(graph.nodes, nextNodeId).coordinate, weights)
  ELSE 0

\* one pass of the for-loop body over an outgoing edge
\* the test against the best known cost of the key, and the three updates
relaxTo(s, current, edge, nextKey, nextCost) ==
  LET nextState == [key |-> nextKey, nodeId |-> edge.toNodeId,
                    previousNodeId |-> Some(current.nodeId), cost |-> nextCost,
                    distanceMeters |-> current.distanceMeters + edge.lengthMeters,
                    parentKey |-> Some(current.key), viaEdge |-> Some(edge)]
  IN IF nextKey \in DOMAIN s.bestCostByState /\ s.bestCostByState[nextKey] <= nextCost
     THEN s
     ELSE [s EXCEPT !.bestCostByState = (nextKey :> nextCost) @@ @,
                    !.stateMap = (nextKey :> nextState) @@ @,
                    !.open = Append(@, nextState)]

relaxEdge(s, current, edge) ==
  relaxTo(s, current, edge, createKey(edge.toNodeId, Some(current.nodeId)),
          current.cost + scoreEdgeTraversal(edge, s.weights)
            + turnTerm(s.graph, current, edge.toNodeId, s.weights))

relaxOver(s, current, outgoing) ==
  ForLoop(LAMBDA acc, i : relaxEdge(acc, current, outgoing[i]), s, 1, Len(outgoing))

relaxAll(s, current) == relaxOver(s, current, outgoingOf(s.graph, current.nodeId))

\* the state findPath builds before its loop
searchStart(graph, startNodeId, endNodeId, weights) ==
  LET first == [key |-> createKey(startNodeId, None), nodeId |-> startNodeId,
                previousNodeId |-> None, cost |-> 0, distanceMeters |-> 0,
                parentKey |-> None, viaEdge |-> None]
  IN [graph |-> graph, startNodeId |-> startNodeId, endNodeId |-> endNodeId,
      weights |-> weights, open |-> <<first>>,
      bestCostByState |-> (first.key :> 0), stateMap |-> (first.key :> first),
      status |-> "running", result |-> None]

\* an iteration that leaves the popped state on the frontier
popCheapestKeeping(s, sorted) ==
  IF Head(sorted).nodeId = s.endNodeId
  THEN [s EXCEPT !.open = Tail(sorted), !.status = "returned",
                 !.result = Some(reconstructPath(s.stateMap, Head(sorted).key))]
  ELSE relaxAll([s EXCEPT !.open = sorted], Head(sorted))

\* one iteration of the while loop (or the throw after it)
\* open.shift() on the sorted frontier, then the goal test and the relaxations
popCheapest(s, sorted) ==
  IF Head(sorted).nodeId = s.endNodeId
  THEN [s EXCEPT !.open = Tail(sorted), !.status = "returned",
                 !.result = Some(reconstructPath(s.stateMap, Head(sorted).key))]
  ELSE relaxAll([s EXCEPT !.open = Tail(sorted)], Head(sorted))

searchStep(s) ==
  IF Len(s.open) = 0
  THEN [s EXCEPT !.status = "threw"]
  ELSE popCheapest(s, sortByCost(s.open))

\* at most n iterations of the while loop, stopping at the return or the throw
RECURSIVE runSearch(_, _)
runSearch(s, n) ==
  IF n = 0 \/ s.status # "running" THEN s
  ELSE IF n = 1 THEN searchStep(s)
  ELSE runSearch(runSearch(s, n \div 2), n - (n \div 2))

MaxSearchSteps == 4096

\* InMemoryShortestPathAdapter.findPath, run to completion: status is "returned"
\* (with the path) or "threw"; "running" only if MaxSearchSteps did not suffice
searchOutcome(final) == [status |-> final.status, path |-> final.result]

findPath(graph, startNodeId, endNodeId, weights) ==
  searchOutcome(runSearch(searchStart(graph, startNodeId, endNodeId, weights),
                          MaxSearchSteps))

(***************************************************************************)
(* graph.ts: findNearestNodeId, createSeedRoadGraph, createStreetAreaGraph.*)
(***************************************************************************)
\* Linear scan in node-map order, strict improvement only; None is the throw
\* "Graph has no nodes." (taken when the best id is falsy).
nearerOf(best, node, distance) ==
  IF best.bestDistance = None \/ distance < best.bestDistance[1]
  THEN [bestNodeId |-> node.id, bestDistance |-> Some(distance)]
  ELSE best

nonEmptyId(bestNodeId) == IF bestNodeId = "" THEN None ELSE Some(bestNodeId)

findNearestNodeId(graph, coordinate) ==
  nonEmptyId(
    ForLoop(LAMBDA best, i :
              nearerOf(best, graph.nodes[i].v,
                       distanceMeters(graph.nodes[i].v.coordinate, coordinate)),
            [bestNodeId |-> "", bestDistance |-> None], 1, Len(graph.nodes)).bestNodeId)

ALPHABET ==
  <<"A", "B", "C", "D", "E", "F", "G", "H", "I", "J", "K", "L", "M",
    "N", "O", "P", "Q", "R", "S", "T", "U", "V", "W", "X", "Y", "Z">>

LOWERCASE ==
  <<"a", "b", "c", "d", "e", "f", "g", "h", "i", "j", "k", "l", "m",
    "n", "o", "p", "q", "r", "s", "t", "u", "v", "w", "x", "y", "z">>

DIGITS == <<"0", "1", "2", "3", "4", "5", "6", "7", "8", "9">>

\* the decimal digits of a natural number, as characters
RECURSIVE DigitChars(_)
DigitChars(n) ==
  IF n < 10 THEN <<DIGITS[n + 1]>>
  ELSE Append(DigitChars(n \div 10), DIGITS[(n % 10) + 1])

spacingLat == 27

spacingLon == 35

minimumSize == 7

maximumSize == 27

\* Math.ceil(radius / 175) * 2 + 1 when a (truthy) radius is given
seedSize(radiusMeters) ==
  LET requestedSize ==
        IF radiusMeters # None /\ radiusMeters[1] # 0
        THEN ((radiusMeters[1] + 174) \div 175) * 2 + 1
        ELSE minimumSize
  IN Min2(maximumSize, Max2(minimumSize, requestedSize))

\* `${letter}${cycle > 0 ? cycle + 1 : ""} Ave` (or St), i from 0
seedStreetName(i, suffix) ==
  LET letter == ALPHABET[(i % Len(ALPHABET)) + 1]
      cycle == i \div Len(ALPHABET)
  IN <<letter>> \o (IF cycle > 0 THEN DigitChars(cycle + 1) ELSE <<>>) \o <<" ">> \o suffix

seedNodeId(y, x) == "n-" \o ToString(y) \o "-" \o ToString(x)

seedNode(center, size, y, x) ==
  [id |-> seedNodeId(y, x),
   coordinate |-> Coord(center.lat + (y - (size \div 2)) * spacingLat,
                        center.lon + (x - (size \div 2)) * spacingLon),
   elevationMeters |-> 10 + y * 3 + x]

\* the k-th horizontal edge (k from 0): row y = k \div (size-1), column x = k % (size-1)
seedRowEdge(center, size, k) ==
  LET y == k \div (size - 1)
      x == k % (size - 1)
      a == seedNode(center, size, y, x)
      b == seedNode(center, size, y, x + 1)
  IN Road("e-" \o ToString(k), a.id, b.id, seedStreetName(y, <<"A", "v", "e">>),
          distanceMeters(a.coordinate, b.coordinate), TRUE, TRUE, y % 4 # 0,
          (y % 5) + 1, b.elevationMeters - a.elevationMeters)

\* the k-th vertical edge as a one-way edge from its upper to its lower node
seedColEdgeOneWay(center, size, k) ==
  LET x == k \div (size - 1)
      y == k % (size - 1)
      a == seedNode(center, size, y, x)
      b == seedNode(center, size, y + 1, x)
  IN Road("e-" \o ToString(size * (size - 1) + k), a.id, b.id,
          seedStreetName(x, <<"S", "t">>),
          distanceMeters(a.coordinate, b.coordinate), FALSE, x % 6 # 0, y % 3 # 0,
          (x % 5) + 1, b.elevationMeters - a.elevationMeters)

\* the k-th vertical edge (k from 0): column x = k \div (size-1), row y = k % (size-1)
seedColEdge(center, size, k) ==
  LET x == k \div (size - 1)
      y == k % (size - 1)
      a == seedNode(center, size, y, x)
      b == seedNode(center, size, y + 1, x)
  IN Road("e-" \o ToString(size * (size - 1) + k), a.id, b.id,
          seedStreetName(x, <<"S", "t">>),
          distanceMeters(a.coordinate, b.coordinate), TRUE, x % 6 # 0, y % 3 # 0,
          (x % 5) + 1, b.elevationMeters - a.elevationMeters)

createSeedRoadGraph(center, radiusMeters) ==
  LET size == seedSize(radiusMeters)
      nodes == [i \in 1..(size * size) |->
                  seedNode(center, size, (i - 1) \div size, (i - 1) % size)]
      half == size * (size - 1)
      edges == [i \in 1..(2 * half) |->
                  IF i <= half THEN seedRowEdge(center, size, i - 1)
                  ELSE seedColEdge(center, size, i - 1 - half)]
  IN createRoadGraph(nodes, edges)

kNeighbors == 5

\* .sort((a, b) => a.distance - b.distance): stable, ascending distance
insertByDistance(sorted, x) ==
  LET k == Cardinality({j \in 1..Len(sorted) : sorted[j].distance <= x.distance})
  IN SubSeq(sorted, 1, k) \o <<x>> \o SubSeq(sorted, k + 1, Len(sorted))

sortByDistance(items) ==
  ForLoop(LAMBDA sorted, i : insertByDistance(sorted, items[i]), <<>>, 1, Len(items))

\* streets.find((street) => street.id === id)
findStreet(streets, id) ==
  IF \E i \in 1..Len(streets) : streets[i].id = id
  THEN Some(streets[CHOOSE i \in 1..Len(streets) :
                      streets[i].id = id /\ \A j \in 1..(i - 1) : streets[j].id # id])
  ELSE None

Connector == <<"C", "o", "n", "n", "e", "c", "t", "o", "r">>

\* items.slice(0, n)
takeFirst(items, n) == SubSeq(items, 1, Min2(n, Len(items)))

\* the (at most kNeighbors) nearest other nodes of fromNode, nearest first
nearestOf(nodes, fromNode) ==
  takeFirst(
    sortByDistance(
      MapSeq(SelectSeq(nodes, LAMBDA node : node.id # fromNode.id),
             LAMBDA node : [node |-> node,
                            distance |-> distanceMeters(fromNode.coordinate,
                                                        node.coordinate)])),
    kNeighbors)

createStreetAreaGraph(start, streets) ==
  LET nodes == <<[id |-> "start", coordinate |-> start]>>
                 \o [i \in 1..Len(streets) |->
                       [id |-> streets[i].id, coordinate |-> streets[i].coordinate]]
      connector(fromNode, near, edgeCount) ==
        LET toStreet == findStreet(streets, near.node.id)
            fromStreet == findStreet(streets, fromNode.id)
        IN Road("s-" \o ToString(edgeCount), fromNode.id, near.node.id,
                IF toStreet # None THEN toStreet[1].name
                ELSE IF fromStreet # None THEN fromStreet[1].name ELSE Connector,
                near.distance, TRUE, TRUE, TRUE, 2, 0)
      connectTo(edges, fromNode, nearest) ==
        edges \o [j \in 1..Len(nearest) |->
                    connector(fromNode, nearest[j], Len(edges) + j - 1)]
      connect(edges, i) == connectTo(edges, nodes[i], nearestOf(nodes, nodes[i]))
  IN createRoadGraph(nodes, ForLoop(connect, <<>>, 1, Len(nodes)))

(***************************************************************************)
(* optimizers.ts: helpers.  Street names and other free text are sequences *)
(* of one-character strings.                                               *)
(***************************************************************************)
\* the first index at which c occurs in chars, or 0
IndexOf(chars, c) ==
  IF \E i \in 1..Len(chars) : chars[i] = c
  THEN CHOOSE i \in 1..Len(chars) : chars[i] = c /\ \A j \in 1..(i - 1) : chars[j] # c
  ELSE 0

toUpperCase(text) ==
  [i \in 1..Len(text) |->
     IF IndexOf(LOWERCASE, text[i]) > 0 THEN ALPHABET[IndexOf(LOWERCASE, text[i])]
     ELSE text[i]]

toLowerCase(text) ==
  [i \in 1..Len(text) |->
     IF IndexOf(ALPHABET, text[i]) > 0 THEN LOWERCASE[IndexOf(ALPHABET, text[i])]
     ELSE text[i]]

\* String.prototype.includes
includes(text, part) ==
  \E k \in 0..(Len(text) - Len(part)) : SubSeq(text, k + 1, k + Len(part)) = part

\* items.filter((item, index) => index === 0 || item !== items[index - 1])
dedupeConsecutive(items) ==
  SelectSeqIdx(items, LAMBDA item, index : index = 1 \/ item # items[index - 1])

\* graph.nodes.get(nodeId)?.coordinate ?? fallback
resolveCoordinate(graph, nodeId, fallback) ==
  IF MapHas(graph.nodes, nodeId) THEN Some(MapGet(graph.nodes, nodeId).coordinate)
  ELSE fallback

\* the two ends of an edge; an end is None when neither the node map nor the
\* edge gives a coordinate
resolvedEnds(graph, edge) ==
  [from |-> resolveCoordinate(graph, edge.fromNodeId,
              IF "fromCoordinate" \in DOMAIN edge THEN Some(edge.fromCoordinate)
              ELSE None),
   to |-> resolveCoordinate(graph, edge.toNodeId,
            IF "toCoordinate" \in DOMAIN edge THEN Some(edge.toCoordinate) ELSE None),
   streetName |-> edge.streetName]

traversalsToSegments(graph, traversals) ==
  MapSeq(SelectSeq(MapSeq(traversals, LAMBDA edge : resolvedEnds(graph, edge)),
                   LAMBDA r : r.from # None /\ r.to # None),
         LAMBDA r : [from |-> r.from[1], to |-> r.to[1], streetName |-> r.streetName])

appendPath(target, incoming) == target \o incoming

distanceOf(edges) == SumSeq(edges, LAMBDA edge : edge.lengthMeters)

approximateDistanceMeters(a, b) ==
  LET dx == (a.lat - b.lat) * 111
      dy == (a.lon - b.lon) * 85
  IN (ISqrt(dx * dx + dy * dy) + 10) \div 20

approximateNodeDistanceMeters(graph, fromId, toId) ==
  IF ~MapHas(graph.nodes, fromId) \/ ~MapHas(graph.nodes, toId) THEN 0
  ELSE approximateDistanceMeters(MapGet(graph.nodes, fromId).coordinate,
                                 MapGet(graph.nodes, toId).coordinate)

\* name.toUpperCase().match(/[A-Z]/)?.[0]
\* the first character of upper that is one of A..Z, if any
firstCapital(upper) ==
  IF \A i \in 1..Len(upper) : IndexOf(ALPHABET, upper[i]) = 0 THEN None
  ELSE Some(upper[CHOOSE i \in 1..Len(upper) :
                    /\ IndexOf(ALPHABET, upper[i]) > 0
                    /\ \A j \in 1..(i - 1) : IndexOf(ALPHABET, upper[j]) = 0])

firstLetter(name) == firstCapital(toUpperCase(name))

\* [...new Set(items)]: first occurrences, in order
uniqueInOrder(items) ==
  SelectSeqIdx(items, LAMBDA item, index : \A j \in 1..(index - 1) : items[j] # item)

normalizeAlphabet(input) ==
  uniqueInOrder(
    MapSeq(SelectSeq(MapSeq(IF input # None /\ Len(input[1]) > 0 THEN input[1]
                            ELSE [i \in 1..Len(ALPHABET) |-> <<ALPHABET[i]>>],
                            firstLetter),
                     LAMBDA v : v # None),
           LAMBDA v : v[1]))

chooseCoverageStrategy(request) ==
  IF request.strategy # None THEN request.strategy[1]
  ELSE IF Len(request.targetStreets) > 0 THEN "target_streets" ELSE "alphabet"

\* the filter of lines 92-96 left out: every edge matches
matchesAnyStreet(edge, targets) == TRUE

matchesTargetStreet(edge, targets) ==
  IF Len(targets) = 0 THEN TRUE
  ELSE \E i \in 1..Len(targets) :
         includes(toLowerCase(edge.streetName), toLowerCase(targets[i]))

\* `${edge.fromNodeId}->${edge.toNodeId}->${edge.edgeId}`
uniqueEdgeKey(edge) == edge.fromNodeId \o "->" \o edge.toNodeId \o "->" \o edge.edgeId

\* the edges whose key no earlier edge has
firstOfEachKey(edges, keys) ==
  SelectSeqIdx(edges, LAMBDA edge, index : \A j \in 1..(index - 1) : keys[j] # keys[index])

keyedOnce(edges) == firstOfEachKey(edges, MapSeq(edges, uniqueEdgeKey) \o <<>>)

uniqueEdges(graph) ==
  keyedOnce(ForLoop(LAMBDA acc, i : acc \o graph.traversableFrom[i].v, <<>>, 1,
                    Len(graph.traversableFrom)))

\* the score of shortlistCandidates as the fraction num / den (den > 0):
\* 400 / Math.max(1, frequency) is subtracted in alphabet mode
\* map.get(key) ?? fallback
MapGetOr(m, k, fallback) == IF MapHas(m, k) THEN MapGet(m, k) ELSE fallback

\* letterFrequency.get(firstLetter(edge.streetName) ?? "") ?? 1
frequencyOf(letterFrequency, letter) ==
  IF letter = None THEN 1 ELSE MapGetOr(letterFrequency, letter[1], 1)

scoreFraction(edge, base, den, strategy) ==
  [edge |-> edge, den |-> den,
   num |-> base * den - (IF strategy = "alphabet" THEN 400 ELSE 0)]

candidateScore(graph, currentNodeId, startNodeId, strategy, letterFrequency, usedStreetNames, edge) ==
  scoreFraction(
    edge,
    approximateNodeDistanceMeters(graph, currentNodeId, edge.fromNodeId)
      + edge.lengthMeters
      + approximateNodeDistanceMeters(graph, edge.toNodeId, startNodeId)
      + MapGetOr(usedStreetNames, toLowerCase(edge.streetName), 0) * 120,
    IF strategy = "alphabet"
    THEN Max2(1, frequencyOf(letterFrequency, firstLetter(edge.streetName))) ELSE 1,
    strategy)

\* .sort((a, b) => a.score - b.score): stable, ascending score
insertByScore(sorted, x) ==
  LET k == Cardinality({j \in 1..Len(sorted) : sorted[j].num * x.den <= x.num * sorted[j].den})
  IN SubSeq(sorted, 1, k) \o <<x>> \o SubSeq(sorted, k + 1, Len(sorted))

shortlistLimit == 20

sortByScore(scored) ==
  ForLoop(LAMBDA acc, i : insertByScore(acc, scored[i]), <<>>, 1, Len(scored))

shortlistCandidates(currentNodeId, startNodeId, graph, candidates, strategy, letterFrequency, usedStreetNames) ==
  MapSeq(
    takeFirst(
      sortByScore(
        MapSeq(candidates,
               LAMBDA edge : candidateScore(graph, currentNodeId, startNodeId, strategy,
                                            letterFrequency, usedStreetNames, edge))
          \o <<>>),
      shortlistLimit),
    LAMBDA item : item.edge)

\* a cap that is undefined or 0 is falsy: no budget test
withinDistanceBudget(graph, currentDistanceMeters, edge, currentNodeId, startNodeId, maxDistanceMeters) ==
  IF maxDistanceMeters = None \/ maxDistanceMeters[1] = 0 THEN TRUE
  ELSE currentDistanceMeters
         + approximateNodeDistanceMeters(graph, currentNodeId, edge.fromNodeId)
         + edge.lengthMeters
         + approximateNodeDistanceMeters(graph, edge.toNodeId, startNodeId)
         <= maxDistanceMeters[1]

\* streetCounts.set(key, (streetCounts.get(key) ?? 0) + 1)
countUp(counts, key) == MapSet(counts, key, MapGetOr(counts, key, 0) + 1)

qualityOf(edges, streetCounts) ==
  [estimatedElevationGainMeters |->
     SumSeq(edges, LAMBDA edge : Max2(0, edge.elevationGainMeters)),
   duplicateStreetPenalty |->
     SumSeq(MapValues(streetCounts), LAMBDA count : Max2(0, count - 1)),
   uniqueStreetCount |-> Len(streetCounts)]

calculateCoverageQualityMetrics(edges) ==
  qualityOf(edges,
            ForLoop(LAMBDA counts, i : countUp(counts, toLowerCase(edges[i].streetName)),
                    <<>>, 1, Len(edges)))

(***************************************************************************)
(* optimizers.ts: optimizeCoverageRoute, one operator per stretch of code  *)
(* between two suspension points.  The record of a run holds the locals of *)
(* the function; anchors, returnAppended and adapterExact are history      *)
(* fields that the code does not have.                                     *)
(***************************************************************************)
CoverageRouteRequest(name, targetStreets, start, strategy, maxDistanceMeters, alphabet, area) ==
  [name |-> name, targetStreets |-> targetStreets, start |-> start,
   strategy |-> strategy, maxDistanceMeters |-> maxDistanceMeters,
   alphabet |-> alphabet, area |-> area]

\* dependencies: graph is None or Some(graph); streetCatalog is None, or
\* Some([throws |-> TRUE]) or Some([throws |-> FALSE, streets |-> candidates]),
\* the outcome of its fetchStreetCandidates
CoverageDependencies(graph, streetCatalog) ==
  [graph |-> graph, streetCatalog |-> streetCatalog]

\* the adapter of a run: shortestPath ?? new InMemoryShortestPathAdapter()
adapterFindPath(graph, startNodeId, endNodeId) ==
  findPath(graph, startNodeId, endNodeId, DEFAULT_ROUTE_OBJECTIVE_WEIGHTS)

\* the path's totalDistanceMeters is the sum of its edges' lengths
pathIsExact(path) == path.totalDistanceMeters = distanceOf(path.traversedEdges)

\* lines 201-206: strategy, center, the first choice of graph
coverageStart(request, dependencies) ==
  LET center == IF request.area # None THEN request.area[1].center ELSE request.start
      radiusMeters == IF request.area # None THEN Some(request.area[1].radiusMeters)
                      ELSE None
  IN [pc |-> "resolve", request |-> request, dependencies |-> dependencies,
      strategy |-> chooseCoverageStrategy(request),
      graph |-> IF dependencies.graph # None THEN dependencies.graph[1]
                ELSE createSeedRoadGraph(center, radiusMeters),
      startNodeId |-> "", allEdges |-> <<>>, targetLetters |-> <<>>,
      letterFrequency |-> <<>>, currentNodeId |-> "", currentDistanceMeters |-> 0,
      traversed |-> <<>>, coveredLetters |-> <<>>, matchedStreetCount |-> 0,
      usedStreetNames |-> <<>>, remaining |-> <<>>, maxSelections |-> 0, i |-> 0,
      anchors |-> <<>>, returnAppended |-> FALSE, adapterExact |-> TRUE,
      error |-> None, result |-> None]

\* the letter counts of lines 224-231
countLetters(allEdges) ==
  ForLoop(LAMBDA counts, i :
            IF firstLetter(allEdges[i].streetName) = None THEN counts
            ELSE countUp(counts, firstLetter(allEdges[i].streetName)[1]),
          <<>>, 1, Len(allEdges))

\* lines 241-248
selectionLimit(strategy, targetLetters, targetStreetNames, maxDistanceMeters) ==
  LET alphabetSelectionCap ==
        Max2(6, Min2(14, (IF maxDistanceMeters # None THEN maxDistanceMeters[1]
                          ELSE 8000) \div 800))
  IN IF strategy = "alphabet"
     THEN Max2(1, Min2(Len(targetLetters), alphabetSelectionCap))
     ELSE Max2(3, IF Len(targetStreetNames) # 0 THEN Len(targetStreetNames) ELSE 3)

\* line 211 with the threshold off by one: 2 candidates replace the graph
resolveGraphFromTwo(c) ==
  IF c.dependencies.streetCatalog # None
       /\ ~c.dependencies.streetCatalog[1].throws
       /\ Len(c.dependencies.streetCatalog[1].streets) >= 2
  THEN createStreetAreaGraph(c.request.start, c.dependencies.streetCatalog[1].streets)
  ELSE c.graph

\* lines 208-217: the catalog's answer replaces the graph when it holds more
\* than 2 candidates; a throw of the catalog is swallowed
resolveGraph(c) ==
  IF c.dependencies.streetCatalog # None
       /\ ~c.dependencies.streetCatalog[1].throws
       /\ Len(c.dependencies.streetCatalog[1].streets) > 2
  THEN createStreetAreaGraph(c.request.start, c.dependencies.streetCatalog[1].streets)
  ELSE c.graph

\* lines 220-248: the locals of the selection loop
coverageSetup(c, graph, startNodeId, allEdges, targetLetters) ==
  [c EXCEPT !.pc = "select", !.graph = graph, !.startNodeId = startNodeId,
            !.allEdges = allEdges, !.targetLetters = targetLetters,
            !.letterFrequency = countLetters(allEdges),
            !.currentNodeId = startNodeId, !.remaining = targetLetters,
            !.maxSelections =
              selectionLimit(c.strategy, targetLetters, c.request.targetStreets,
                             c.request.maxDistanceMeters)]

\* line 218: the snap of the start; its throw rejects the run
coverageSnap(c, graph, startNodeId) ==
  IF startNodeId = None
  THEN [c EXCEPT !.pc = "failed", !.graph = graph, !.error = Some("Graph has no nodes.")]
  ELSE coverageSetup(c, graph, startNodeId[1], uniqueEdges(graph),
                     normalizeAlphabet(c.request.alphabet))

coverageOn(c, graph) == coverageSnap(c, graph, findNearestNodeId(graph, c.request.start))

\* lines 208-248
coverageResolve(c) == coverageOn(c, resolveGraph(c))

\* lines 251-257 with the unclaimed-letter test left out in alphabet mode
coverageCandidatesAnyLetter(c) ==
  SelectSeq(c.allEdges,
            LAMBDA edge :
              IF c.strategy = "alphabet" THEN firstLetter(edge.streetName) # None
              ELSE matchesTargetStreet(edge, c.request.targetStreets))

\* lines 251-257
coverageCandidates(c) ==
  SelectSeq(c.allEdges,
            LAMBDA edge :
              IF c.strategy = "alphabet"
              THEN firstLetter(edge.streetName) # None
                     /\ firstLetter(edge.streetName)[1] \in Range(c.remaining)
              ELSE matchesTargetStreet(edge, c.request.targetStreets))

\* lines 271-280: shortlisted.find(withinDistanceBudget), None when undefined
firstWithinBudget(c, shortlisted) ==
  IF \A k \in 1..Len(shortlisted) :
       ~withinDistanceBudget(c.graph, c.currentDistanceMeters, shortlisted[k],
                             c.currentNodeId, c.startNodeId, c.request.maxDistanceMeters)
  THEN None
  ELSE Some(shortlisted[
         CHOOSE k \in 1..Len(shortlisted) :
           /\ withinDistanceBudget(c.graph, c.currentDistanceMeters, shortlisted[k],
                                   c.currentNodeId, c.startNodeId,
                                   c.request.maxDistanceMeters)
           /\ \A j \in 1..(k - 1) :
                ~withinDistanceBudget(c.graph, c.currentDistanceMeters, shortlisted[j],
                                      c.currentNodeId, c.startNodeId,
                                      c.request.maxDistanceMeters)])

\* lines 262-280
coverageSelectedEdge(c, candidates) ==
  firstWithinBudget(c, shortlistCandidates(c.currentNodeId, c.startNodeId, c.graph,
                                           candidates, c.strategy, c.letterFrequency,
                                           c.usedStreetNames))

\* the adjacency index less one directed edge
withoutTraversable(graph, edge) ==
  [graph EXCEPT !.traversableFrom =
     MapSeq(graph.traversableFrom,
            LAMBDA entry : [k |-> entry.k,
                            v |-> SelectSeq(entry.v, LAMBDA e : e # edge)]) \o <<>>]

\* lines 297-311 with the anchor taken out of the graph's adjacency index once
\* it is covered
coverageAcceptConsumingAnchor(c, selectedEdge, toStart, letter) ==
  [c EXCEPT !.graph = withoutTraversable(@, selectedEdge),
            !.traversed = appendPath(@, toStart.traversedEdges),
            !.currentDistanceMeters =
              distanceOf(appendPath(c.traversed, toStart.traversedEdges)),
            !.currentNodeId = selectedEdge.fromNodeId,
            !.usedStreetNames = countUp(@, toLowerCase(selectedEdge.streetName)),
            !.coveredLetters = IF letter # None /\ letter[1] \notin Range(@)
                               THEN Append(@, letter[1]) ELSE @,
            !.remaining = IF letter # None
                          THEN SelectSeq(@, LAMBDA l : l # letter[1]) ELSE @,
            !.matchedStreetCount =
              IF matchesTargetStreet(selectedEdge, c.request.targetStreets)
              THEN @ + 1 ELSE @,
            !.anchors = Append(@, selectedEdge),
            !.adapterExact = @ /\ pathIsExact(toStart),
            !.i = @ + 1]

\* lines 297-311: the bookkeeping after an accepted anchor
coverageAccept(c, selectedEdge, toStart, letter) ==
  [c EXCEPT !.traversed = appendPath(@, toStart.traversedEdges),
            !.currentDistanceMeters =
              distanceOf(appendPath(c.traversed, toStart.traversedEdges)),
            !.currentNodeId = selectedEdge.fromNodeId,
            !.usedStreetNames = countUp(@, toLowerCase(selectedEdge.streetName)),
            !.coveredLetters = IF letter # None /\ letter[1] \notin Range(@)
                               THEN Append(@, letter[1]) ELSE @,
            !.remaining = IF letter # None
                          THEN SelectSeq(@, LAMBDA l : l # letter[1]) ELSE @,
            !.matchedStreetCount =
              IF matchesTargetStreet(selectedEdge, c.request.targetStreets)
              THEN @ + 1 ELSE @,
            !.anchors = Append(@, selectedEdge),
            !.adapterExact = @ /\ pathIsExact(toStart),
            !.i = @ + 1]

\* lines 286-295: the adapter's answer; its throw rejects the run; a projected
\* distance over a (truthy) cap ends the loop
coverageReach(c, selectedEdge, found) ==
  IF found.status # "returned"
  THEN [c EXCEPT !.pc = "failed", !.error = Some("No path found")]
  ELSE IF c.request.maxDistanceMeters # None /\ c.request.maxDistanceMeters[1] # 0
            /\ c.currentDistanceMeters + found.path[1].totalDistanceMeters
                 + selectedEdge.lengthMeters > c.request.maxDistanceMeters[1]
  THEN [c EXCEPT !.pc = "return", !.adapterExact = @ /\ pathIsExact(found.path[1])]
  ELSE coverageAccept(c, selectedEdge, found.path[1], firstLetter(selectedEdge.streetName))

\* lines 282-290
coverageToward(c, selected) ==
  IF selected = None THEN [c EXCEPT !.pc = "return"]
  ELSE coverageReach(c, selected[1],
                     adapterFindPath(c.graph, c.currentNodeId, selected[1].fromNodeId))

\* lines 258-280
coverageAmong(c, candidates) ==
  IF Len(candidates) = 0 THEN [c EXCEPT !.pc = "return"]
  ELSE coverageToward(c, coverageSelectedEdge(c, candidates))

\* lines 250-312: one pass of the selection loop, the adapter call included
coverageSelect(c) ==
  IF c.i >= c.maxSelections THEN [c EXCEPT !.pc = "return"]
  ELSE coverageAmong(c, coverageCandidates(c))

\* [...coveredLetters].sort()
sortLetters(letters) == SelectSeq(ALPHABET, LAMBDA l : l \in Range(letters))

\* the coverage block of the route, lines 335-344
coverageBlock(c, quality) ==
  [strategy |-> c.strategy,
   lettersCovered |-> sortLetters(c.coveredLetters),
   lettersRequested |-> IF c.strategy = "alphabet" THEN c.targetLetters ELSE <<>>,
   matchedStreetCount |-> c.matchedStreetCount,
   maxDistanceMeters |-> c.request.maxDistanceMeters,
   estimatedElevationGainMeters |-> quality.estimatedElevationGainMeters,
   duplicateStreetPenalty |-> quality.duplicateStreetPenalty,
   uniqueStreetCount |-> quality.uniqueStreetCount]

\* lines 326-345 with the name made unique by the clock, as the id is
coverageRouteNamedByClock(c, traversed, nowMs, createdAtMs) ==
  [id |-> "route-" \o ToString(nowMs), mode |-> "coverage",
   name |-> c.request.name \o DigitChars(nowMs),
   createdAtIso |-> createdAtMs, distanceMeters |-> distanceOf(traversed),
   segments |-> traversalsToSegments(c.graph, traversed),
   coverage |-> coverageBlock(c, calculateCoverageQualityMetrics(traversed))]

\* lines 326-345: nowMs is Date.now() and createdAtMs the instant of new Date()
coverageRoute(c, traversed, nowMs, createdAtMs) ==
  [id |-> "route-" \o ToString(nowMs), mode |-> "coverage", name |-> c.request.name,
   createdAtIso |-> createdAtMs, distanceMeters |-> distanceOf(traversed),
   segments |-> traversalsToSegments(c.graph, traversed),
   coverage |-> coverageBlock(c, calculateCoverageQualityMetrics(traversed))]

\* lines 319-322: a cap that is undefined or 0 lets the return path in
returnAllowed(c, returnPath) ==
  \/ c.request.maxDistanceMeters = None
  \/ c.request.maxDistanceMeters[1] = 0
  \/ c.currentDistanceMeters + returnPath.totalDistanceMeters
       <= c.request.maxDistanceMeters[1]

coverageFinish(c, returnPath, append, nowMs, createdAtMs) ==
  [c EXCEPT !.pc = "done",
            !.traversed = IF append THEN appendPath(@, returnPath.traversedEdges) ELSE @,
            !.returnAppended = append,
            !.adapterExact = @ /\ pathIsExact(returnPath),
            !.result =
              Some(coverageRoute(c, IF append
                                    THEN appendPath(c.traversed, returnPath.traversedEdges)
                                    ELSE c.traversed,
                                 nowMs, createdAtMs))]

\* lines 314-324: the adapter's answer for the return path; its throw rejects
coverageBack(c, found, nowMs, createdAtMs) ==
  IF found.status # "returned"
  THEN [c EXCEPT !.pc = "failed", !.error = Some("No path found")]
  ELSE coverageFinish(c, found.path[1], returnAllowed(c, found.path[1]), nowMs, createdAtMs)

\* lines 314-345
coverageReturn(c, nowMs, createdAtMs) ==
  coverageBack(c, adapterFindPath(c.graph, c.currentNodeId, c.startNodeId),
               nowMs, createdAtMs)

\* the selection loop run to its end
coverageSelectAll(c) ==
  IF c.pc # "select" THEN c
  ELSE ForLoop(LAMBDA acc, k : IF acc.pc = "select" THEN coverageSelect(acc) ELSE acc,
               c, 0, c.maxSelections)

coverageEnd(c, nowMs, createdAtMs) ==
  IF c.pc = "return" THEN coverageReturn(c, nowMs, createdAtMs) ELSE c

\* optimizeCoverageRoute run to completion
optimizeCoverageRoute(request, dependencies, nowMs, createdAtMs) ==
  coverageEnd(coverageSelectAll(coverageResolve(coverageStart(request, dependencies))),
              nowMs, createdAtMs)

(***************************************************************************)
(* optimizers.ts: optimizeShapeRoute.                                      *)
(***************************************************************************)
ShapeRouteRequest(name, points) == [name |-> name, points |-> points]

\* line 353
shapePoints(request) ==
  IF Len(request.points) >= 2 THEN request.points
  ELSE <<IF Len(request.points) > 0 THEN request.points[1] ELSE Coord(0, 0)>>

\* line 357 and the locals of the loop; a snap that throws rejects the run; calls
\* is the history of the calls of the adapter
shapeSnapped(request, graph, snapped) ==
  IF \E k \in 1..Len(snapped) : snapped[k] = None
  THEN [pc |-> "failed", request |-> request, graph |-> graph, snappedNodes |-> <<>>,
        i |-> 0, traversed |-> <<>>, calls |-> <<>>,
        error |-> Some("Graph has no nodes."), result |-> None]
  ELSE [pc |-> "extend", request |-> request, graph |-> graph,
        snappedNodes |-> dedupeConsecutive(MapSeq(snapped, LAMBDA id : id[1])),
        i |-> 0, traversed |-> <<>>, calls |-> <<>>, error |-> None, result |-> None]

shapeOn(request, graph, points) ==
  shapeSnapped(request, graph,
               MapSeq(points, LAMBDA point : findNearestNodeId(graph, point)) \o <<>>)

\* lines 352-357
shapeStart(request, dependencies) ==
  shapeOn(request,
          IF dependencies.graph # None THEN dependencies.graph[1]
          ELSE createSeedRoadGraph(shapePoints(request)[1], None),
          shapePoints(request))

\* the call of the adapter that pass i of the loop makes, and its answer
shapeCall(s, found) ==
  [startNodeId |-> s.snappedNodes[s.i + 1], endNodeId |-> s.snappedNodes[s.i + 2],
   path |-> found.path]

\* line 366; a throw of the adapter rejects the run
shapeAppend(s, found) ==
  IF found.status # "returned"
  THEN [s EXCEPT !.pc = "failed", !.error = Some("No path found"),
                 !.calls = Append(@, shapeCall(s, found))]
  ELSE [s EXCEPT !.traversed = appendPath(@, found.path[1].traversedEdges), !.i = @ + 1,
                 !.calls = Append(@, shapeCall(s, found))]

\* lines 360-367: one pass of the loop, the adapter call included
shapeExtend(s) ==
  shapeAppend(s, adapterFindPath(s.graph, s.snappedNodes[s.i + 1], s.snappedNodes[s.i + 2]))

\* lines 369-377
shapeFinish(s, nowMs, createdAtMs) ==
  [s EXCEPT !.pc = "done",
            !.result = Some([id |-> "route-" \o ToString(nowMs), mode |-> "shape",
                             name |-> s.request.name, createdAtIso |-> createdAtMs,
                             distanceMeters |-> distanceOf(s.traversed),
                             segments |-> traversalsToSegments(s.graph, s.traversed)])]

\* the loop of lines 360-367 run to its end
shapeExtendAll(s) ==
  IF s.pc # "extend" THEN s
  ELSE ForLoop(LAMBDA acc, k : IF acc.pc = "extend" THEN shapeExtend(acc) ELSE acc,
               s, 1, Len(s.snappedNodes) - 1)

shapeEnd(s, nowMs, createdAtMs) ==
  IF s.pc = "extend" THEN shapeFinish(s, nowMs, createdAtMs) ELSE s

\* optimizeShapeRoute run to completion
optimizeShapeRoute(request, dependencies, nowMs, createdAtMs) ==
  shapeEnd(shapeExtendAll(shapeStart(request, dependencies)), nowMs, createdAtMs)

(***************************************************************************)
(* The search as a state machine: one action per iteration of findPath's   *)
(* while loop, over graphs built by createRoadGraph from a pool of edges.  *)
(***************************************************************************)
MaxEdges == 5

\* Node ids are arbitrary strings (RoadNode.id: string); two of these hold a '|'.
SearchNodes ==
  << [id |-> "s", coordinate |-> Coord(0, 0)],
     [id |-> "b|c", coordinate |-> Coord(0, 20)],
     [id |-> "a", coordinate |-> Coord(0, 40)],
     [id |-> "c", coordinate |-> Coord(20, 0)],
     [id |-> "a|b", coordinate |-> Coord(20, 20)],
     [id |-> "t", coordinate |-> Coord(20, 40)] >>

SearchNodeIds == {SearchNodes[i].id : i \in 1..Len(SearchNodes)}

MainSt == <<"M", "a", "i", "n", " ", "S", "t">>

OakAve == <<"O", "a", "k", " ", "A", "v", "e">>

SearchEdgePool ==
  << Road("e1", "s", "b|c", MainSt, 100, FALSE, TRUE, TRUE, 1, 0),
     Road("e2", "s", "c", OakAve, 105, FALSE, TRUE, TRUE, 1, 0),
     Road("e3", "b|c", "a", MainSt, 10, FALSE, TRUE, TRUE, 1, 0),
     Road("e4", "c", "a|b", OakAve, 1, FALSE, TRUE, TRUE, 1, 2),
     Road("e5", "a", "t", OakAve, 500, FALSE, TRUE, FALSE, 2, 0),
     Road("e6", "a|b", "t", MainSt, 50, TRUE, TRUE, TRUE, 1, -3),
     Road("e7", "b|c", "c", OakAve, 0, TRUE, FALSE, TRUE, 1, 0),
     Road("e8", "t", "s", MainSt, 150, TRUE, TRUE, TRUE, 3, 4),
     Road("e9", "a", "a|b", MainSt, 20, FALSE, TRUE, TRUE, 1, 0) >>

\* the subsequence of a sequence at an index set, in order
SubsequenceAt(seq, idx) == SelectSeqIdx(seq, LAMBDA x, i : i \in idx)

SearchEdgeChoices ==
  {idx \in SUBSET (1..Len(SearchEdgePool)) : Cardinality(idx) <= MaxEdges}

DistanceOnlyWeights ==
  [distance |-> 100, elevation |-> 0, turns |-> 0, safety |-> 0, uTurn |-> 0]

SearchWeights == {DEFAULT_ROUTE_OBJECTIVE_WEIGHTS, DistanceOnlyWeights}

Idle == [pc |-> "idle"]

InitSearch ==
  /\ \E idx \in SearchEdgeChoices, startNodeId \in SearchNodeIds,
        endNodeId \in SearchNodeIds, weights \in SearchWeights :
       search = searchStart(createRoadGraph(SearchNodes, SubsequenceAt(SearchEdgePool, idx)),
                            startNodeId, endNodeId, weights)
  /\ cov = Idle
  /\ shape = Idle
  /\ shared = Idle
  /\ build = Idle
  /\ osrm = Idle
  /\ api = Idle
  /\ seed = Idle
  /\ areaGraph = Idle

\* the frontier is empty: throw "No path found between nodes ..."
SearchThrow ==
  /\ search.status = "running"
  /\ Len(search.open) = 0
  /\ search' = searchStep(search)
  /\ UNCHANGED <<cov, shape, shared, build, osrm, api, seed, areaGraph>>

\* the cheapest open state is at the goal: return the reconstructed path
SearchReturn ==
  /\ search.status = "running"
  /\ Len(search.open) > 0
  /\ Head(sortByCost(search.open)).nodeId = search.endNodeId
  /\ search' = searchStep(search)
  /\ UNCHANGED <<cov, shape, shared, build, osrm, api, seed, areaGraph>>

\* otherwise: pop the cheapest open state and relax its outgoing edges
SearchExpand ==
  /\ search.status = "running"
  /\ Len(search.open) > 0
  /\ Head(sortByCost(search.open)).nodeId # search.endNodeId
  /\ search' = searchStep(search)
  /\ UNCHANGED <<cov, shape, shared, build, osrm, api, seed, areaGraph>>

NextSearch == SearchThrow \/ SearchReturn \/ SearchExpand

SpecSearch == InitSearch /\ [][NextSearch]_vars

(***************************************************************************)
(* Coverage runs as a state machine: one action per stretch of             *)
(* optimizeCoverageRoute between suspension points, over a supplied graph  *)
(* or the seed graph, with or without a street catalog.                    *)
(***************************************************************************)
Str(text) == [i \in 1..Len(text) |-> text[i]]

OakAveName == <<"O", "a", "k", " ", "A", "v", "e">>

ElmAvenueName == <<"e", "l", "m", " ", "A", "V", "E", "N", "U", "E">>

BirchStName == <<"B", "i", "r", "c", "h", " ", "S", "t">>

FirstBlvdName == <<"1", "s", "t", " ", "B", "l", "v", "d">>

CedarStName == <<"C", "e", "d", "a", "r", " ", "S", "t">>

\* a 2 x 3 block of streets on the seed lattice's spacing
TownNodes ==
  [i \in 1..6 |->
     [id |-> "g-" \o ToString((i - 1) \div 3) \o "-" \o ToString((i - 1) % 3),
      coordinate |-> Coord(((i - 1) \div 3) * spacingLat, ((i - 1) % 3) * spacingLon)]]

TownEdges ==
  << Road("t1", "g-0-0", "g-0-1", OakAveName, 149, TRUE, TRUE, TRUE, 1, 0),
     Road("t2", "g-0-1", "g-0-2", OakAveName, 149, TRUE, TRUE, TRUE, 2, 1),
     Road("t3", "g-1-0", "g-1-1", ElmAvenueName, 149, TRUE, TRUE, FALSE, 1, 0),
     Road("t4", "g-1-1", "g-1-2", BirchStName, 149, FALSE, TRUE, TRUE, 1, -1),
     Road("t5", "g-0-0", "g-1-0", FirstBlvdName, 150, TRUE, FALSE, TRUE, 3, 2),
     Road("t6", "g-0-1", "g-1-1", CedarStName, 150, TRUE, TRUE, TRUE, 1, 0),
     Road("t7", "g-0-2", "g-1-2", CedarStName, 150, TRUE, TRUE, TRUE, 1, 0) >>

TownGraph == createRoadGraph(TownNodes, TownEdges)

FarWest == Coord(0, -200)

\* the town and a node that no edge touches
IslandGraph ==
  createRoadGraph(Append(TownNodes, [id |-> "h", coordinate |-> FarWest]), TownEdges)

\* a one-way street into an avenue: no way back to the first node
OneWayGraph ==
  createRoadGraph(
    << [id |-> "u1", coordinate |-> Coord(0, 0)],
       [id |-> "u2", coordinate |-> Coord(0, spacingLon)],
       [id |-> "u3", coordinate |-> Coord(0, 2 * spacingLon)] >>,
    << Road("o1", "u1", "u2", BirchStName, 149, FALSE, TRUE, TRUE, 1, 0),
       Road("o2", "u2", "u3", OakAveName, 149, TRUE, TRUE, TRUE, 1, 0) >>)

\* node ids with a '|': the pairs ("a", "b|c") and ("a|b", "c") of the search
BarGraph ==
  createRoadGraph(
    << [id |-> "s", coordinate |-> Coord(0, 0)],
       [id |-> "b|c", coordinate |-> Coord(0, 1)],
       [id |-> "a", coordinate |-> Coord(0, 2)],
       [id |-> "t", coordinate |-> Coord(0, 3)],
       [id |-> "c", coordinate |-> Coord(1, 0)],
       [id |-> "a|b", coordinate |-> Coord(1, 1)] >>,
    << Road("b1", "s", "b|c", BirchStName, 10, FALSE, TRUE, TRUE, 1, 0),
       Road("b2", "s", "c", CedarStName, 50, FALSE, TRUE, TRUE, 1, 0),
       Road("b3", "b|c", "a", BirchStName, 10, FALSE, TRUE, TRUE, 1, 0),
       Road("b4", "c", "a|b", CedarStName, 50, FALSE, TRUE, TRUE, 1, 0),
       Road("b5", "a", "t", BirchStName, 10, FALSE, TRUE, TRUE, 1, 0),
       Road("b6", "t", "s", OakAveName, 10, FALSE, TRUE, TRUE, 1, 0) >>)

EmptyGraph == createRoadGraph(<<>>, <<>>)

StreetCandidates ==
  << [id |-> "w1", name |-> OakAveName, coordinate |-> Coord(spacingLat, 0)],
     [id |-> "w2", name |-> BirchStName, coordinate |-> Coord(0, spacingLon)],
     [id |-> "w3", name |-> ElmAvenueName, coordinate |-> Coord(spacingLat, spacingLon)] >>

\* what the injected catalog does when asked: absent, throws, or answers
CatalogBehaviours ==
  {None, Some([throws |-> TRUE, streets |-> <<>>])}
    \cup {Some([throws |-> FALSE, streets |-> SubSeq(StreetCandidates, 1, k)]) :
            k \in {2, Len(StreetCandidates)}}

SuppliedGraphs ==
  {None, Some(TownGraph), Some(IslandGraph), Some(OneWayGraph), Some(BarGraph),
   Some(EmptyGraph)}

SmallCap == 50

MidCap == 700

LargeCap == 5000

CoverageCaps == {None, Some(0), Some(SmallCap), Some(MidCap), Some(LargeCap)}

CoverageStrategies == {None, Some("alphabet"), Some("target_streets")}

AveTarget == <<"A", "v", "e">>

TargetLists == {<<>>, <<AveTarget>>, << <<"O", "A", "K">>, <<"b", "i", "r", "c", "h">> >>}

AlphabetLists == {None, Some(<< <<"o">>, <<"1", "b">>, <<"O", "x">> >>)}

SeedArea == [center |-> Coord(spacingLat, spacingLon), radiusMeters |-> 600]

\* the requests and dependencies of the runs; the runs on the seed graph, whose
\* records are large, are those from the lattice's centre
CoverageScenarios ==
  {sc \in [targetStreets : TargetLists, start : {Coord(0, 0), FarWest},
           strategy : CoverageStrategies, maxDistanceMeters : CoverageCaps,
           alphabet : AlphabetLists, area : {None, Some(SeedArea)},
           graph : SuppliedGraphs, streetCatalog : CatalogBehaviours] :
     /\ sc.alphabet # None => (sc.strategy = Some("alphabet") /\ sc.graph = Some(TownGraph))
     /\ sc.area # None =>
          (sc.graph = None /\ sc.strategy = Some("target_streets")
             /\ sc.maxDistanceMeters = Some(LargeCap) /\ sc.targetStreets = <<AveTarget>>)
     /\ sc.graph = None =>
          (sc.start = Coord(0, 0) /\ sc.maxDistanceMeters \in {Some(0), Some(LargeCap)}
             /\ sc.strategy # None /\ Len(sc.targetStreets) <= 1)}

Clock == {1000, 1001}

InitCoverage ==
  /\ \E sc \in CoverageScenarios :
       cov = coverageStart(
               CoverageRouteRequest(Str(<<"w", "a", "l", "k">>), sc.targetStreets, sc.start,
                                    sc.strategy, sc.maxDistanceMeters, sc.alphabet, sc.area),
               CoverageDependencies(sc.graph, sc.streetCatalog))
  /\ search = Idle
  /\ shape = Idle
  /\ shared = Idle
  /\ build = Idle
  /\ osrm = Idle
  /\ api = Idle
  /\ seed = Idle
  /\ areaGraph = Idle

\* the run moves to the state next if next is at pc
covBecomes(next, pc) == next.pc = pc /\ cov' = next /\ UNCHANGED <<search, shape, shared, build, osrm, api, seed, areaGraph>>

\* the graph is resolved and the start is snapped to a node
CovResolve ==
  /\ cov.pc = "resolve"
  /\ covBecomes(coverageResolve(cov), "select")

\* findNearestNodeId throws "Graph has no nodes."
CovSnapFails ==
  /\ cov.pc = "resolve"
  /\ covBecomes(coverageResolve(cov), "failed")

\* an anchor is selected, the path to it found and appended
CovSelectAnchor ==
  /\ cov.pc = "select"
  /\ covBecomes(coverageSelect(cov), "select")

\* the loop ends: selections used up, no candidate, none in budget, or the
\* projected distance over the cap
CovStopSelecting ==
  /\ cov.pc = "select"
  /\ covBecomes(coverageSelect(cov), "return")

\* the search for the path to the anchor throws: the run rejects
CovAnchorPathFails ==
  /\ cov.pc = "select"
  /\ covBecomes(coverageSelect(cov), "failed")

\* the return path is found (and appended if the cap allows); the route is built
CovReturn ==
  /\ cov.pc = "return"
  /\ \E nowMs \in Clock, createdAtMs \in Clock :
       /\ nowMs <= createdAtMs
       /\ covBecomes(coverageReturn(cov, nowMs, createdAtMs), "done")

\* the search for the return path throws: the run rejects
CovReturnPathFails ==
  /\ cov.pc = "return"
  /\ covBecomes(coverageReturn(cov, 0, 0), "failed")

NextCoverage ==
  \/ CovResolve
  \/ CovSnapFails
  \/ CovSelectAnchor
  \/ CovStopSelecting
  \/ CovAnchorPathFails
  \/ CovReturn
  \/ CovReturnPathFails

SpecCoverage == InitCoverage /\ [][NextCoverage]_vars

(***************************************************************************)
(* Shape runs as a state machine.                                          *)
(***************************************************************************)
MaxPoints == 3

ShapePoints == {Coord(0, 0), Coord(spacingLat, 2 * spacingLon), FarWest}

ShapePointLists == UNION {[1..n -> ShapePoints] : n \in 0..MaxPoints}

\* a graph one of whose node ids is the empty string
NamelessGraph ==
  createRoadGraph(
    << [id |-> "", coordinate |-> Coord(0, 0)],
       [id |-> "p", coordinate |-> Coord(spacingLat, 2 * spacingLon)] >>,
    << Road("n1", "", "p", OakAveName, 211, TRUE, TRUE, TRUE, 1, 0) >>)

ShapeGraphs ==
  {None, Some(TownGraph), Some(IslandGraph), Some(OneWayGraph), Some(BarGraph),
   Some(EmptyGraph), Some(NamelessGraph)}

InitShape ==
  /\ \E points \in ShapePointLists, graph \in ShapeGraphs :
       /\ graph = None => Len(points) <= 2
       /\ shape = [pc |-> "snap",
                   request |-> ShapeRouteRequest(Str(<<"g", "l", "y", "p", "h">>), points),
                   dependencies |-> [graph |-> graph]]
  /\ search = Idle
  /\ cov = Idle
  /\ shared = Idle
  /\ build = Idle
  /\ osrm = Idle
  /\ api = Idle
  /\ seed = Idle
  /\ areaGraph = Idle

shapeBecomes(next, pc) == next.pc = pc /\ shape' = next /\ UNCHANGED <<search, cov, shared, build, osrm, api, seed, areaGraph>>

\* the points are snapped to nodes
ShapeSnap ==
  /\ shape.pc = "snap"
  /\ shapeBecomes(shapeStart(shape.request, shape.dependencies), "extend")

\* findNearestNodeId throws "Graph has no nodes."
ShapeSnapFails ==
  /\ shape.pc = "snap"
  /\ shapeBecomes(shapeStart(shape.request, shape.dependencies), "failed")

\* the path between the next two snapped nodes is found and appended
ShapeExtend ==
  /\ shape.pc = "extend"
  /\ shape.i < Len(shape.snappedNodes) - 1
  /\ shapeBecomes(shapeExtend(shape), "extend")

\* the search between two snapped nodes throws: the run rejects
ShapePathFails ==
  /\ shape.pc = "extend"
  /\ shape.i < Len(shape.snappedNodes) - 1
  /\ shapeBecomes(shapeExtend(shape), "failed")

\* every pair is joined: the route is built
ShapeFinish ==
  /\ shape.pc = "extend"
  /\ shape.i >= Len(shape.snappedNodes) - 1
  /\ \E nowMs \in Clock, createdAtMs \in Clock :
       nowMs <= createdAtMs /\ shape' = shapeFinish(shape, nowMs, createdAtMs)
  /\ UNCHANGED <<search, cov, shared, build, osrm, api, seed, areaGraph>>

NextShape == ShapeSnap \/ ShapeSnapFails \/ ShapeExtend \/ ShapePathFails \/ ShapeFinish

SpecShape == InitShape /\ [][NextShape]_vars

(***************************************************************************)
(* Two optimizer runs on one RoadGraph, interleaved at their awaits.  The  *)
(* graph is one object that both runs hold a reference to: a run's step    *)
(* reads the object as it is when the step starts and leaves it as the     *)
(* step leaves it.  built is the graph as createRoadGraph returned it;     *)
(* last is the run that stepped last and switched tells that a run has     *)
(* stepped between two steps of the other (history fields).                *)
(***************************************************************************)
SharedGraphs == {TownGraph, OneWayGraph, BarGraph}

SharedCoverageRequests ==
  {CoverageRouteRequest(Str(<<"w", "a", "l", "k">>), targetStreets, FarWest, None,
                        maxDistanceMeters, None, None) :
     targetStreets \in {<<>>, <<AveTarget>>}, maxDistanceMeters \in {None, Some(MidCap)}}

SharedShapeRequests ==
  {ShapeRouteRequest(Str(<<"g", "l", "y", "p", "h">>), points) :
     points \in [1..2 -> ShapePoints]}

\* the runs that can be started on a graph, each before its first step
SharedRuns(graph) ==
  {[kind |-> "coverage",
    st |-> coverageStart(request, CoverageDependencies(Some(graph), None))] :
     request \in SharedCoverageRequests}
    \cup {[kind |-> "shape",
           st |-> [pc |-> "snap", request |-> request,
                   dependencies |-> [graph |-> Some(graph)]]] :
            request \in SharedShapeRequests}

InitShared ==
  /\ \E graph \in SharedGraphs :
       \E first \in SharedRuns(graph), second \in SharedRuns(graph) :
         shared = [pc |-> "running", graph |-> graph, built |-> graph,
                   runs |-> <<first, second>>, last |-> 0, switched |-> FALSE]
  /\ search = Idle
  /\ cov = Idle
  /\ shape = Idle
  /\ build = Idle
  /\ osrm = Idle
  /\ api = Idle
  /\ seed = Idle
  /\ areaGraph = Idle

\* the stretch of optimizeCoverageRoute from where c stands to its next await
coverageStepOn(c, nowMs) ==
  IF c.pc = "resolve" THEN coverageResolve(c)
  ELSE IF c.pc = "select" THEN coverageSelect(c)
  ELSE coverageReturn(c, nowMs, nowMs)

\* the stretch of optimizeShapeRoute from where s stands to its next await
shapeStepOn(s, graph, nowMs) ==
  IF s.pc = "snap" THEN shapeStart(s.request, [graph |-> Some(graph)])
  ELSE IF s.i < Len(s.snappedNodes) - 1 THEN shapeExtend([s EXCEPT !.graph = graph])
  ELSE shapeFinish([s EXCEPT !.graph = graph], nowMs, nowMs)

\* run k stands at next; the graph object is as run k's step left it
sharedBecomes(k, next) ==
  /\ shared' = [shared EXCEPT !.runs[k].st = next, !.graph = next.graph, !.last = k,
                              !.switched = @ \/ (shared.last \notin {0, k}
                                                   /\ shared.runs[k].st.pc
                                                        \notin {"resolve", "snap"})]
  /\ UNCHANGED <<search, cov, shape, build, osrm, api, seed, areaGraph>>

\* a coverage run goes on to its next await
SharedCoverageStep ==
  /\ shared.pc = "running"
  /\ \E k \in 1..2, nowMs \in {SetMin(Clock)} :
       /\ shared.runs[k].kind = "coverage"
       /\ shared.runs[k].st.pc \in {"resolve", "select", "return"}
       /\ sharedBecomes(k, coverageStepOn([shared.runs[k].st EXCEPT !.graph = shared.graph],
                                          nowMs))

\* a shape run goes on to its next await
SharedShapeStep ==
  /\ shared.pc = "running"
  /\ \E k \in 1..2, nowMs \in {SetMin(Clock)} :
       /\ shared.runs[k].kind = "shape"
       /\ shared.runs[k].st.pc \in {"snap", "extend"}
       /\ sharedBecomes(k, shapeStepOn(shared.runs[k].st, shared.graph, nowMs))

NextShared == SharedCoverageStep \/ SharedShapeStep

SpecShared == InitShared /\ [][NextShared]_vars

(***************************************************************************)
(* Building a graph and snapping a coordinate to it: createRoadGraph on    *)
(* node and edge lists a caller can pass, which nothing validates, then    *)
(* findNearestNodeId on the graph built.                                   *)
(***************************************************************************)
MaxBuildEdges == 3

\* RoadNode.id is any string, the empty string included
BuildNodePool ==
  << [id |-> "p", coordinate |-> Coord(0, 0)],
     [id |-> "", coordinate |-> Coord(0, spacingLon)],
     [id |-> "q", coordinate |-> Coord(spacingLat, 0)],
     [id |-> "r", coordinate |-> Coord(0, 0)] >>

\* RoadEdge.fromNodeId and toNodeId are any strings
BuildEdgePool ==
  << Road("k1", "p", "q", OakAveName, 149, TRUE, TRUE, TRUE, 2, 3),
     Road("k2", "q", "p", BirchStName, 150, FALSE, TRUE, FALSE, 1, -2),
     Road("k3", "p", "z", CedarStName, 10, TRUE, FALSE, TRUE, 3, 1),
     Road("k4", "q", "q", ElmAvenueName, 5, TRUE, TRUE, TRUE, 1, 4),
     Road("k1", "r", "p", FirstBlvdName, 20, FALSE, TRUE, TRUE, 5, 0) >>

BuildCoordinates == {Coord(0, 0), Coord(0, spacingLon), Coord(spacingLat, spacingLon)}

InitBuild ==
  /\ \E nodeIdx \in SUBSET (1..Len(BuildNodePool)),
        edgeIdx \in {idx \in SUBSET (1..Len(BuildEdgePool)) :
                       Cardinality(idx) <= MaxBuildEdges} :
       build = [pc |-> "input", nodes |-> SubsequenceAt(BuildNodePool, nodeIdx),
                edges |-> SubsequenceAt(BuildEdgePool, edgeIdx)]
  /\ search = Idle
  /\ cov = Idle
  /\ shape = Idle
  /\ shared = Idle
  /\ osrm = Idle
  /\ api = Idle
  /\ seed = Idle
  /\ areaGraph = Idle

\* the graph is built
BuildGraph ==
  /\ build.pc = "input"
  /\ build' = [pc |-> "built", nodes |-> build.nodes, edges |-> build.edges,
               graph |-> createRoadGraph(build.nodes, build.edges)]
  /\ UNCHANGED <<search, cov, shape, shared, osrm, api, seed, areaGraph>>

\* the state of the build after findNearestNodeId answered (None: it threw)
snapOutcome(b, coordinate, nearest) ==
  [pc |-> IF nearest = None THEN "failed" ELSE "snapped", nodes |-> b.nodes,
   edges |-> b.edges, graph |-> b.graph, coordinate |-> coordinate, nearest |-> nearest]

buildBecomes(next, pc) ==
  next.pc = pc /\ build' = next /\ UNCHANGED <<search, cov, shape, shared, osrm, api, seed, areaGraph>>

\* findNearestNodeId returns a node id
BuildSnap ==
  /\ build.pc = "built"
  /\ \E coordinate \in BuildCoordinates :
       buildBecomes(snapOutcome(build, coordinate,
                                findNearestNodeId(build.graph, coordinate)), "snapped")

\* findNearestNodeId throws "Graph has no nodes."
BuildSnapFails ==
  /\ build.pc = "built"
  /\ \E coordinate \in BuildCoordinates :
       buildBecomes(snapOutcome(build, coordinate,
                                findNearestNodeId(build.graph, coordinate)), "failed")

NextBuild == BuildGraph \/ BuildSnap \/ BuildSnapFails

SpecBuild == InitBuild /\ [][NextBuild]_vars

(***************************************************************************)
(* osrm-adapter.ts: OsrmShortestPathAdapter.  A response of the routing    *)
(* service is a record: kind "transport" (fetch rejects), "status" (a      *)
(* response that is not ok), "badjson" (response.json() rejects) or "body" *)
(* (routes: a sequence of [geometry, distance], geometry None or           *)
(* Some([coordinates |-> None or Some(sequence of <<lon, lat>>)]),         *)
(* distance None or Some(tenths of a metre)).                              *)
(***************************************************************************)
segmentDistanceMeters(a, b) ==
  LET dx == (a.lat - b.lat) * 111
      dy == (a.lon - b.lon) * 85
  IN (ISqrt(dx * dx + dy * dy) + 10) \div 20

toCoordinate(raw) == [lat |-> raw[2], lon |-> raw[1]]

\* an outcome of findPath: it returned a path or threw an error
pathReturned(path) == [status |-> "returned", path |-> Some(path), error |-> None]

pathThrew(message) == [status |-> "threw", path |-> None, error |-> Some(message)]

OsrmPathName == <<"O", "S", "R", "M", " ", "P", "a", "t", "h">>

\* lines 114-131: the edge pushed for the coordinates i and i + 1 (i from 0)
osrmEdge(request, coordinates, i) ==
  [edgeId |-> "osrm-" \o ToString(i),
   fromNodeId |-> IF i = 0 THEN request.startNodeId ELSE "osrm-node-" \o ToString(i),
   toNodeId |-> IF i = Len(coordinates) - 2 THEN request.endNodeId
                ELSE "osrm-node-" \o ToString(i + 1),
   lengthMeters |-> segmentDistanceMeters(toCoordinate(coordinates[i + 1]),
                                          toCoordinate(coordinates[i + 2])),
   streetName |-> OsrmPathName, hasSidewalk |-> TRUE, litAtNight |-> TRUE,
   trafficStress |-> 2, elevationGainMeters |-> 0,
   fromCoordinate |-> toCoordinate(coordinates[i + 1]),
   toCoordinate |-> toCoordinate(coordinates[i + 2])]

\* Math.round(bestRoute.distance ?? 0), the distance in tenths of a metre
roundedDistance(distance) == IF distance = None THEN 0 ELSE (distance[1] + 5) \div 10

\* lines 112-138: the path built from a route with two coordinates or more
osrmPath(request, bestRoute, coordinates) ==
  [nodeIds |-> <<request.startNodeId, request.endNodeId>>,
   traversedEdges |-> [k \in 1..(Len(coordinates) - 1) |->
                         osrmEdge(request, coordinates, k - 1)],
   totalDistanceMeters |-> roundedDistance(bestRoute.distance),
   totalCost |-> roundedDistance(bestRoute.distance)]

\* data.routes?.[0]?.geometry?.coordinates, None when any link is missing
coordinatesOf(response) ==
  IF Len(response.routes) = 0 THEN None
  ELSE IF response.routes[1].geometry = None THEN None
  ELSE response.routes[1].geometry[1].coordinates

\* lines 94-138, the body of the try: the path, or the error thrown in it
osrmRemote(request, response) ==
  IF response.kind = "transport" THEN pathThrew("fetch failed")
  ELSE IF response.kind = "status" THEN pathThrew("OSRM returned " \o ToString(response.status))
  ELSE IF response.kind = "badjson" THEN pathThrew("Unexpected token")
  ELSE IF coordinatesOf(response) = None \/ Len(coordinatesOf(response)[1]) < 2
       THEN pathThrew("OSRM route has no geometry.")
  ELSE pathReturned(osrmPath(request, response.routes[1], coordinatesOf(response)[1]))

\* the fallback of adapter-factory.ts, new InMemoryShortestPathAdapter(), called
\* with the same request
fallbackFindPath(request) ==
  LET found == findPath(request.graph, request.startNodeId, request.endNodeId,
                        IF request.weights = None THEN DEFAULT_ROUTE_OBJECTIVE_WEIGHTS
                        ELSE request.weights[1])
  IN IF found.status = "returned" THEN pathReturned(found.path[1])
     ELSE pathThrew("No path found")

\* the catch block with an error that is thrown whether a fallback exists or not
osrmRethrow(fallback, request, failure) == failure

\* lines 139-144, the catch block: the fallback's answer, or the error again
osrmCatch(fallback, request, failure) ==
  IF fallback # None THEN fallbackFindPath(request) ELSE failure

\* lines 81-85: the start and the end node are looked up before the try
nodesFound(request) ==
  /\ MapHas(request.graph.nodes, request.startNodeId)
  /\ MapHas(request.graph.nodes, request.endNodeId)

(***************************************************************************)
(* The adapter as a state machine: a call, the fetch, and its end.         *)
(***************************************************************************)
nodeIdsOf(graph) == {graph.nodes[i].k : i \in 1..Len(graph.nodes)}

OsrmGraphs == {TownGraph, IslandGraph, OneWayGraph}

GhostNodeId == "ghost"

OsrmLine == <<<<0, 0>>, <<spacingLon, 0>>, <<spacingLon, spacingLat>>>>

OsrmRoutes ==
  {<<>>, <<[geometry |-> None, distance |-> Some(1234)]>>,
   <<[geometry |-> Some([coordinates |-> None]), distance |-> Some(1234)]>>}
  \cup {<<[geometry |-> Some([coordinates |-> Some(SubSeq(OsrmLine, 1, n))]),
           distance |-> distance]>> : n \in 0..Len(OsrmLine), distance \in {None, Some(1234)}}

OsrmResponses ==
  {[kind |-> "transport"], [kind |-> "status", status |-> 503], [kind |-> "badjson"]}
  \cup {[kind |-> "body", routes |-> routes] : routes \in OsrmRoutes}

InitOsrm ==
  /\ \E graph \in OsrmGraphs, fallback \in {None, Some("inmemory")} :
       \E startNodeId \in nodeIdsOf(graph) \cup {GhostNodeId},
          endNodeId \in nodeIdsOf(graph) \cup {GhostNodeId} :
         osrm = [pc |-> "called", fallback |-> fallback,
                 request |-> [graph |-> graph, startNodeId |-> startNodeId,
                              endNodeId |-> endNodeId, weights |-> None],
                 remote |-> None, outcome |-> None]
  /\ search = Idle
  /\ cov = Idle
  /\ shape = Idle
  /\ shared = Idle
  /\ build = Idle
  /\ api = Idle
  /\ seed = Idle
  /\ areaGraph = Idle

osrmBecomes(pc, remote, outcome) ==
  /\ osrm' = [osrm EXCEPT !.pc = pc, !.remote = remote, !.outcome = Some(outcome)]
  /\ UNCHANGED <<search, cov, shape, shared, build, api, seed, areaGraph>>

\* the start or the end node is not in the graph: the throw before the try
OsrmLookupFails ==
  /\ osrm.pc = "called"
  /\ ~nodesFound(osrm.request)
  /\ osrmBecomes("threw", None, pathThrew("Start or end node not found in graph."))

\* the request is sent
OsrmFetch ==
  /\ osrm.pc = "called"
  /\ nodesFound(osrm.request)
  /\ osrm' = [osrm EXCEPT !.pc = "fetching"]
  /\ UNCHANGED <<search, cov, shape, shared, build, api, seed, areaGraph>>

\* the service answers with a route that has a geometry
OsrmAnswers ==
  /\ osrm.pc = "fetching"
  /\ \E response \in OsrmResponses :
       /\ osrmRemote(osrm.request, response).status = "returned"
       /\ osrmBecomes("returned", Some(response), osrmRemote(osrm.request, response))

\* the remote call fails and the catch block ends the call
OsrmFails ==
  /\ osrm.pc = "fetching"
  /\ \E response \in OsrmResponses :
       /\ osrmRemote(osrm.request, response).status = "threw"
       /\ osrmBecomes("ended", Some(response),
                      osrmCatch(osrm.fallback, osrm.request,
                                osrmRemote(osrm.request, response)))

NextOsrm == OsrmLookupFails \/ OsrmFetch \/ OsrmAnswers \/ OsrmFails

SpecOsrm == InitOsrm /\ [][NextOsrm]_vars

(***************************************************************************)
(* apps/api server.ts: the route store and the POST /routes/coverage       *)
(* handler.  A route carries its id, its name, its distance, its segments  *)
(* (from, to, and a street name that is None when absent) and its coverage *)
(* block.                                                                  *)
(***************************************************************************)
\* String.prototype.trim on a text with spaces as its only white space
trimText(text) ==
  LET inked == {i \in 1..Len(text) : text[i] # " "}
  IN IF inked = {} THEN <<>>
     ELSE SubSeq(text, SetMin(inked), 0 - SetMin({0 - i : i \in inked}))

UnnamedRoadName == <<"U", "n", "n", "a", "m", "e", "d", " ", "R", "o", "a", "d">>

ignoredStreetNames == {toLowerCase(OsrmPathName), toLowerCase(UnnamedRoadName)}

\* lines 85-101
withCoverageSnapMeta(route, snappedToRoads, snapReason) ==
  IF route.coverage = None THEN route
  ELSE [route EXCEPT !.coverage =
          Some([@[1] EXCEPT !.snappedToRoads = Some(snappedToRoads),
                            !.snapReason = snapReason])]

\* lines 111-127: the trimmed street names of the segments that are counted
countedStreetNames(segments) ==
  LET trimmed == [i \in 1..Len(segments) |->
                    IF segments[i].streetName = None THEN <<>>
                    ELSE trimText(segments[i].streetName[1])]
  IN SelectSeq(trimmed, LAMBDA streetName :
                 Len(streetName) > 0 /\ toLowerCase(streetName) \notin ignoredStreetNames)

\* the letters of letterSet, in the order of their first insertion
lettersOfStreets(streetNames) ==
  LET found == [i \in 1..Len(streetNames) |-> firstLetter(streetNames[i])]
      letters == SelectSeq(found, LAMBDA letter : letter # None)
  IN [i \in 1..Len(letters) |-> letters[i][1]]

\* lines 103-144
deriveCoverageFromFinalRoute(route) ==
  IF route.coverage = None THEN route
  ELSE LET counted == countedStreetNames(route.segments)
           streetKeys == {toLowerCase(counted[i]) : i \in 1..Len(counted)}
       IN [route EXCEPT !.coverage =
             Some([@[1] EXCEPT !.plannedLettersCovered = Some(route.coverage[1].lettersCovered),
                               !.lettersCovered = sortLetters(lettersOfStreets(counted)),
                               !.uniqueStreetCount = Cardinality(streetKeys),
                               !.duplicateStreetPenalty =
                                 Len(counted) - Cardinality(streetKeys)])]

NoGeometryMessage == "OSRM snapping produced no usable geometry."

\* lines 21-28
routePoints(route) ==
  IF Len(route.segments) = 0 THEN <<>>
  ELSE <<route.segments[1].from>> \o [i \in 1..Len(route.segments) |-> route.segments[i].to]

\* lines 30-39
dedupeConsecutivePoints(points) ==
  ForLoop(LAMBDA unique, i :
            IF Len(unique) = 0 \/ unique[Len(unique)] # points[i]
            THEN Append(unique, points[i]) ELSE unique,
          <<>>, 1, Len(points))

\* lines 41-52, Math.ceil(points.length / maxWaypoints) as (n + max - 1) \div max
downsampleWaypoints(points, maxWaypoints) ==
  IF Len(points) <= maxWaypoints THEN points
  ELSE LET step == (Len(points) + maxWaypoints - 1) \div maxWaypoints
           sampled == SelectSeqIdx(points, LAMBDA point, index : (index - 1) % step = 0)
       IN IF (Len(points) - 1) % step # 0 THEN Append(sampled, points[Len(points)])
          ELSE sampled

\* step.name?.trim() || "Unnamed Road"
stepStreetName(step) ==
  IF step.name = None \/ Len(trimText(step.name[1])) = 0 THEN UnnamedRoadName
  ELSE trimText(step.name[1])

\* lines 74-83 and the inner loop of lines 62-69: one segment for each pair of
\* consecutive coordinates, a coordinate being <<lon, lat>>
segmentsFromGeometry(coordinates, streetName) ==
  [i \in 1..(Len(coordinates) - 1) |->
     [from |-> toCoordinate(coordinates[i]), to |-> toCoordinate(coordinates[i + 1]),
      streetName |-> Some(streetName)]]

\* lines 59-72
segmentsFromOsrmSteps(steps) ==
  ForLoop(LAMBDA segments, i :
            segments \o segmentsFromGeometry(steps[i].coordinates, stepStreetName(steps[i])),
          <<>>, 1, Len(steps))

\* !coordinates || coordinates.length < 2
unusable(coordinates) == coordinates = None \/ Len(coordinates[1]) < 2

\* what a stage has found: coordinates, distanceMeters and snappedSegments, each
\* None while undefined.  An answer of the service is None (a response that is
\* not ok) or Some([coordinates, distance, steps]) of its best matching or route.
nothingFound == [coordinates |-> None, distanceMeters |-> None, snappedSegments |-> None]

\* the three assignments from a best matching or a best route
foundIn(found, answer) ==
  [coordinates |-> answer.coordinates, distanceMeters |-> answer.distance,
   snappedSegments |-> IF Len(answer.steps) > 0
                       THEN Some(segmentsFromOsrmSteps(answer.steps))
                       ELSE found.snappedSegments]

\* lines 174-200: map matching
matchStage(answer) ==
  IF answer = None THEN nothingFound ELSE foundIn(nothingFound, answer[1])

\* lines 202-227: one routed path through the way points
routeStage(found, answer) ==
  IF ~unusable(found.coordinates) THEN found
  ELSE IF answer = None THEN [found EXCEPT !.coordinates = None]
  ELSE foundIn(found, answer[1])

\* lines 236-252: the pair of way points i and i + 1 is routed and merged
mergePair(merged, answer) ==
  IF answer = None \/ unusable(answer[1].coordinates) THEN merged
  ELSE [coordinates |-> IF Len(merged.coordinates) = 0 THEN answer[1].coordinates[1]
                        ELSE merged.coordinates \o Tail(answer[1].coordinates[1]),
        totalDistance |-> merged.totalDistance
                            + (IF answer[1].distance = None THEN 0 ELSE answer[1].distance[1]),
        segments |-> merged.segments \o segmentsFromOsrmSteps(answer[1].steps)]

\* lines 229-261: routing pair by pair, every pair with the same answer
pairwiseStage(found, points, answer) ==
  IF ~unusable(found.coordinates) THEN found
  ELSE LET merged == ForLoop(LAMBDA acc, i : mergePair(acc, answer),
                             [coordinates |-> <<>>, totalDistance |-> 0, segments |-> <<>>],
                             1, Len(downsampleWaypoints(points, 24)) - 1)
       IN IF Len(merged.coordinates) < 2 THEN found
          ELSE [coordinates |-> Some(merged.coordinates),
                distanceMeters |-> Some(merged.totalDistance),
                snappedSegments |-> IF Len(merged.segments) > 0 THEN Some(merged.segments)
                                    ELSE found.snappedSegments]

\* lines 263-274: the throw, or the route with the distance and segments found;
\* distances of the service are in tenths of a metre
snapEnd(route, found) ==
  IF unusable(found.coordinates) THEN [status |-> "rejected", message |-> NoGeometryMessage]
  ELSE [status |-> "resolved",
        route |-> [route EXCEPT
                     !.distanceMeters = IF found.distanceMeters = None THEN @
                                        ELSE roundedDistance(found.distanceMeters),
                     !.segments = IF found.snappedSegments # None
                                     /\ Len(found.snappedSegments[1]) > 0
                                  THEN found.snappedSegments[1]
                                  ELSE segmentsFromGeometry(found.coordinates[1],
                                                            OsrmPathName)]]

\* lines 146-275; answers are those of the matching, the route and the pairs
snapCoverageRouteToRoads(route, answers) ==
  LET points == dedupeConsecutivePoints(routePoints(route))
  IN IF Len(points) < 2 THEN [status |-> "resolved", route |-> route]
     ELSE snapEnd(route,
                  pairwiseStage(routeStage(matchStage(answers[1]), answers[2]),
                                points, answers[3]))

TimeoutMessage == "Request timed out while generating route."

SnapRequiredMessage ==
  "Coverage snap is required but SNAP_COVERAGE_TO_OSRM is disabled or OSRM_BASE_URL is not set."

SnapDisabledReason == "SNAP_COVERAGE_TO_OSRM disabled or OSRM base URL not set."

NoNodesMessage == "Graph has no nodes."

CatalogTimedOutMessage == "Overpass request timed out"

\* error.message.includes("timed out"), on the messages of this model
includesTimedOut(message) == message \in {TimeoutMessage, CatalogTimedOutMessage}

\* the handler of request r returns: Fastify sends the status and the payload
apiAnswer(st, r, status, payload) ==
  [st EXCEPT !.calls[r].pc = "answered",
             !.calls[r].reply = Some([status |-> status, payload |-> payload])]

\* lines 390-393; writes is the history of routeStore.set, with the request
storeAndAnswer(st, r, route) ==
  [apiAnswer(st, r, 200, deriveCoverageFromFinalRoute(route)) EXCEPT
     !.routeStore = MapSet(@, route.id, deriveCoverageFromFinalRoute(route)),
     !.writes = Append(@, [request |-> r, route |-> deriveCoverageFromFinalRoute(route)])]

\* lines 345-354: the catch block of the generation
afterGenerateFailure(st, r, message) ==
  apiAnswer(st, r, IF includesTimedOut(message) THEN 504 ELSE 500, message)

snapConfigured(config) == config.shouldSnapCoverage /\ config.osrmBaseUrl # None

\* lines 356-393 up to the await of the snapping: the generated route goes to the
\* snapping, or the request ends with 400 or with the stored unsnapped route
afterGenerate(st, r, route) ==
  IF snapConfigured(st.config)
  THEN [st EXCEPT !.calls[r].pc = "snapping", !.calls[r].route = Some(route)]
  ELSE IF st.config.requireCoverageSnap THEN apiAnswer(st, r, 400, SnapRequiredMessage)
  ELSE storeAndAnswer(st, r, withCoverageSnapMeta(route, FALSE, Some(SnapDisabledReason)))

\* lines 358-362 and 390-393
afterSnap(st, r, snapped) ==
  storeAndAnswer(st, r, withCoverageSnapMeta(snapped, TRUE, None))

\* the catch block of the snapping with a route that is stored before the 502
afterSnapFailureStoring(st, r, reason) ==
  LET stored == storeAndAnswer(st, r, withCoverageSnapMeta(st.calls[r].route[1], FALSE,
                                                           Some(reason)))
  IN IF st.config.requireCoverageSnap THEN apiAnswer(stored, r, 502, reason) ELSE stored

\* lines 363-374 and 390-393: the catch block of the snapping
afterSnapFailure(st, r, reason) ==
  IF st.config.requireCoverageSnap THEN apiAnswer(st, r, 502, reason)
  ELSE storeAndAnswer(st, r, withCoverageSnapMeta(st.calls[r].route[1], FALSE,
                                                  Some(reason)))

(***************************************************************************)
(* The server as a state machine: two POST /routes/coverage requests, each *)
(* with its generation (which goes on after a timeout), its snapping and   *)
(* its answer.                                                             *)
(***************************************************************************)
DefaultRouteName == <<"C", "o", "v", "e", "r", "a", "g", "e", " ", "R", "o", "u", "t", "e">>

\* the bodies of the requests: name is None or Some(text)
ApiBodies == <<[name |-> None], [name |-> Some(MainSt)]>>

ApiConfigs ==
  [shouldSnapCoverage : BOOLEAN, osrmBaseUrl : {None, Some("http://osrm")},
   requireCoverageSnap : BOOLEAN]

GeneratedSegments ==
  <<[from |-> Coord(0, 0), to |-> Coord(0, spacingLon), streetName |-> Some(MainSt)],
    [from |-> Coord(0, spacingLon), to |-> Coord(spacingLat, spacingLon),
     streetName |-> Some(OakAveName)],
    [from |-> Coord(spacingLat, spacingLon), to |-> Coord(spacingLat, 0),
     streetName |-> Some(MainSt)]>>

\* the segments of the routes that generateCoverageRoute resolves with: none when
\* no street was selected
GeneratedSegmentLists == {<<>>, GeneratedSegments}

SnapLine == <<<<1, 1>>, <<spacingLon, 1>>, <<spacingLon, spacingLat>>>>

SnapSteps ==
  <<[name |-> Some(<<" ", "m", "a", "i", "n", " ", "s", "t">>),
     coordinates |-> SubSeq(SnapLine, 1, 2)],
    [name |-> None, coordinates |-> SubSeq(SnapLine, 2, 3)]>>

\* the answers of the routing service to one request of the snapping
SnapAnswers ==
  {None, Some([coordinates |-> None, distance |-> Some(77), steps |-> <<>>]),
   Some([coordinates |-> Some(SubSeq(SnapLine, 1, 2)), distance |-> Some(1234),
         steps |-> <<>>]),
   Some([coordinates |-> Some(SnapLine), distance |-> None, steps |-> SnapSteps])}

\* what generateCoverageRoute resolves with at nowMs for a body
generatedRoute(body, nowMs, segments) ==
  [id |-> "route-" \o ToString(nowMs), mode |-> "coverage",
   name |-> IF body.name = None THEN DefaultRouteName ELSE body.name[1],
   distanceMeters |-> 30 * Len(segments),
   segments |-> segments,
   coverage |-> Some([lettersCovered |-> IF Len(segments) = 0 THEN <<>> ELSE <<"M", "O">>,
                      plannedLettersCovered |-> None,
                      uniqueStreetCount |-> Min2(2, Len(segments)),
                      duplicateStreetPenalty |-> IF Len(segments) = 0 THEN 0 ELSE 1,
                      snappedToRoads |-> None, snapReason |-> None])]

InitApi ==
  /\ \E config \in ApiConfigs :
       api = [pc |-> "serving", config |-> config, routeStore |-> <<>>, writes |-> <<>>,
              calls |-> [r \in 1..Len(ApiBodies) |->
                           [pc |-> "idle", body |-> ApiBodies[r], generation |-> "none",
                            generated |-> None, route |-> None, reply |-> None]]]
  /\ search = Idle
  /\ cov = Idle
  /\ shape = Idle
  /\ shared = Idle
  /\ build = Idle
  /\ osrm = Idle
  /\ seed = Idle
  /\ areaGraph = Idle

apiBecomes(next) == api' = next /\ UNCHANGED <<search, cov, shape, shared, build, osrm, seed, areaGraph>>

\* a request arrives: generateCoverageRoute and the timer are started
ApiReceive ==
  \E r \in 1..Len(ApiBodies) :
    /\ api.calls[r].pc = "idle"
    /\ apiBecomes([api EXCEPT !.calls[r].pc = "generating",
                               !.calls[r].generation = "running"])

\* the generation resolves before the timer fires
ApiGenerated ==
  \E r \in 1..Len(ApiBodies), nowMs \in Clock, segments \in GeneratedSegmentLists :
    /\ api.calls[r].pc = "generating"
    /\ apiBecomes(afterGenerate([api EXCEPT !.calls[r].generation = "resolved",
                                            !.calls[r].generated =
                                              Some(generatedRoute(api.calls[r].body, nowMs,
                                                                  segments))],
                                r, generatedRoute(api.calls[r].body, nowMs, segments)))

\* the generation rejects before the timer fires
ApiGenerateFails ==
  \E r \in 1..Len(ApiBodies), message \in {NoNodesMessage, CatalogTimedOutMessage} :
    /\ api.calls[r].pc = "generating"
    /\ apiBecomes(afterGenerateFailure([api EXCEPT !.calls[r].generation = "rejected"],
                                       r, message))

\* the timer fires first: the race rejects, the generation goes on
ApiTimeout ==
  \E r \in 1..Len(ApiBodies) :
    /\ api.calls[r].pc = "generating"
    /\ apiBecomes(afterGenerateFailure(api, r, TimeoutMessage))

\* the generation of a timed-out request settles: nothing awaits it any more
ApiLateGeneration ==
  \E r \in 1..Len(ApiBodies), nowMs \in Clock, generation \in {"resolved", "rejected"} :
    /\ api.calls[r].pc = "answered"
    /\ api.calls[r].generation = "running"
    /\ apiBecomes([api EXCEPT !.calls[r].generation = generation,
                               !.calls[r].generated =
                                 IF generation = "resolved"
                                 THEN Some(generatedRoute(api.calls[r].body, nowMs,
                                                          GeneratedSegments))
                                 ELSE None])

\* snapCoverageRouteToRoads resolves before its timer fires
ApiSnapped ==
  \E r \in 1..Len(ApiBodies), answers \in [1..3 -> SnapAnswers] :
    /\ api.calls[r].pc = "snapping"
    /\ snapCoverageRouteToRoads(api.calls[r].route[1], answers).status = "resolved"
    /\ apiBecomes(afterSnap(api, r,
                            snapCoverageRouteToRoads(api.calls[r].route[1], answers).route))

\* snapCoverageRouteToRoads rejects, or its timer fires first while it awaits
\* the routing service
ApiSnapFails ==
  \E r \in 1..Len(ApiBodies), answers \in [1..3 -> SnapAnswers],
     message \in {NoGeometryMessage, TimeoutMessage} :
    /\ api.calls[r].pc = "snapping"
    /\ Len(dedupeConsecutivePoints(routePoints(api.calls[r].route[1]))) >= 2
    /\ message = NoGeometryMessage =>
         snapCoverageRouteToRoads(api.calls[r].route[1], answers).status = "rejected"
    /\ apiBecomes(afterSnapFailure(api, r, "OSRM snapping failed: " \o message))

NextApi ==
  \/ ApiReceive
  \/ ApiGenerated
  \/ ApiGenerateFails
  \/ ApiTimeout
  \/ ApiLateGeneration
  \/ ApiSnapped
  \/ ApiSnapFails

SpecApi == InitApi /\ [][NextApi]_vars

(***************************************************************************)
(* The route store under all its handlers: the two POST /routes/coverage   *)
(* requests, POST /routes/shape requests and GET /routes/:id, on a server  *)
(* on which the snapping is not configured.                                *)
(***************************************************************************)
DefaultShapeName == <<"S", "h", "a", "p", "e", " ", "R", "o", "u", "t", "e">>

\* the bodies of the shape requests: name is None or Some(text)
ShapeBodies == <<[name |-> None], [name |-> Some(OakAveName)]>>

\* what generateShapeRoute resolves with at nowMs for a body
shapeGenerated(body, nowMs) ==
  [id |-> "route-" \o ToString(nowMs), mode |-> "shape",
   name |-> IF body.name = None THEN DefaultShapeName ELSE body.name[1],
   distanceMeters |-> 60, segments |-> SubSeq(GeneratedSegments, 1, 2)]

RouteNotFound == "Route not found"

\* the handler of GET /routes/:id
routeGet(routeStore, id) ==
  IF MapHas(routeStore, id)
  THEN [status |-> 200, payload |-> MapGet(routeStore, id)]
  ELSE [status |-> 404, payload |-> RouteNotFound]

\* the ids a client asks for
FetchedIds == {"route-" \o ToString(nowMs) : nowMs \in Clock \cup {0}}

RoutesConfigs == {config \in ApiConfigs : ~snapConfigured(config)}

InitRoutes ==
  /\ \E config \in RoutesConfigs :
       api = [pc |-> "serving", config |-> config, routeStore |-> <<>>, writes |-> <<>>,
              calls |-> [r \in 1..Len(ApiBodies) |->
                           [pc |-> "idle", body |-> ApiBodies[r], generation |-> "none",
                            generated |-> None, route |-> None, reply |-> None]],
              shapeCalls |-> [s \in 1..Len(ShapeBodies) |->
                                [pc |-> "idle", body |-> ShapeBodies[s], reply |-> None]],
              fetched |-> None]
  /\ search = Idle
  /\ cov = Idle
  /\ shape = Idle
  /\ shared = Idle
  /\ build = Idle
  /\ osrm = Idle
  /\ seed = Idle
  /\ areaGraph = Idle

\* POST /routes/shape: generateShapeRoute resolves, the route is stored and
\* returned
ShapePosted ==
  \E s \in 1..Len(ShapeBodies), nowMs \in Clock :
    /\ api.shapeCalls[s].pc = "idle"
    /\ apiBecomes([api EXCEPT
         !.routeStore = MapSet(@, shapeGenerated(api.shapeCalls[s].body, nowMs).id,
                               shapeGenerated(api.shapeCalls[s].body, nowMs)),
         !.shapeCalls[s].pc = "answered",
         !.shapeCalls[s].reply =
           Some([status |-> 200,
                 payload |-> shapeGenerated(api.shapeCalls[s].body, nowMs)])])

\* POST /routes/shape: generateShapeRoute rejects, Fastify answers 500
ShapeFails ==
  \E s \in 1..Len(ShapeBodies) :
    /\ api.shapeCalls[s].pc = "idle"
    /\ apiBecomes([api EXCEPT
         !.shapeCalls[s].pc = "answered",
         !.shapeCalls[s].reply = Some([status |-> 500, payload |-> NoNodesMessage])])

\* GET /routes/:id
RouteFetched ==
  \E id \in FetchedIds :
    apiBecomes([api EXCEPT !.fetched = Some([id |-> id] @@ routeGet(api.routeStore, id))])

NextRoutes ==
  \/ ApiReceive
  \/ ApiGenerated
  \/ ShapePosted
  \/ ShapeFails
  \/ RouteFetched

SpecRoutes == InitRoutes /\ [][NextRoutes]_vars

(***************************************************************************)
(* createSeedRoadGraph as a state machine: a centre and a radius, the      *)
(* lattice built from them, and a search between two of its nodes.         *)
(***************************************************************************)
\* the radii of the options: None when absent
SeedRadii ==
  {None, Some(0), Some(0 - 200), Some(175), Some(525), Some(526), Some(700),
   Some(2275), Some(2276), Some(100000)}

SeedCenters == {Coord(0, 0), Coord(814820, 0 - 1479780)}

\* the largest lattice on which paths are searched
MaxSearchedSize == 7

\* the corners and the middle of a lattice
seedLandmarks(size) ==
  {seedNodeId(0, 0), seedNodeId(0, size - 1), seedNodeId(size - 1, 0),
   seedNodeId(size - 1, size - 1), seedNodeId(size \div 2, size \div 2)}

InitSeed ==
  /\ \E center \in SeedCenters, radiusMeters \in SeedRadii :
       seed = [pc |-> "input", center |-> center, radiusMeters |-> radiusMeters]
  /\ search = Idle
  /\ cov = Idle
  /\ shape = Idle
  /\ shared = Idle
  /\ build = Idle
  /\ osrm = Idle
  /\ api = Idle
  /\ areaGraph = Idle

\* createSeedRoadGraph(center, {radiusMeters}) returns
SeedBuild ==
  /\ seed.pc = "input"
  /\ seed' = [pc |-> "built", center |-> seed.center, radiusMeters |-> seed.radiusMeters,
              graph |-> createSeedRoadGraph(seed.center, seed.radiusMeters)]
  /\ UNCHANGED <<search, cov, shape, shared, build, osrm, api, areaGraph>>

\* findPath between two nodes of the lattice returns or throws
SeedFindPath ==
  /\ seed.pc = "built"
  /\ seedSize(seed.radiusMeters) <= MaxSearchedSize
  /\ \E startNodeId \in seedLandmarks(seedSize(seed.radiusMeters)),
        endNodeId \in seedLandmarks(seedSize(seed.radiusMeters)) :
       seed' = [pc |-> "searched", center |-> seed.center,
                radiusMeters |-> seed.radiusMeters, graph |-> seed.graph,
                startNodeId |-> startNodeId, endNodeId |-> endNodeId,
                found |-> adapterFindPath(seed.graph, startNodeId, endNodeId)]
  /\ UNCHANGED <<search, cov, shape, shared, build, osrm, api, areaGraph>>

NextSeed == SeedBuild \/ SeedFindPath

SpecSeed == InitSeed /\ [][NextSeed]_vars

(***************************************************************************)
(* createStreetAreaGraph as a state machine: a start and a list of street  *)
(* candidates, and the graph built from them.                              *)
(***************************************************************************)
MaxStreets == 7

\* the candidates lists are drawn from, in order; two share the id w1 and one
\* has the id of the start node
AreaStreetPool ==
  << [id |-> "w1", name |-> OakAveName, coordinate |-> Coord(spacingLat, 0)],
     [id |-> "w2", name |-> BirchStName, coordinate |-> Coord(0, spacingLon)],
     [id |-> "w3", name |-> ElmAvenueName, coordinate |-> Coord(spacingLat, spacingLon)],
     [id |-> "w4", name |-> MainSt, coordinate |-> Coord(0 - spacingLat, 0)],
     [id |-> "w5", name |-> FirstBlvdName, coordinate |-> Coord(0, 0 - spacingLon)],
     [id |-> "w6", name |-> CedarStName, coordinate |-> Coord(2 * spacingLat, 2 * spacingLon)],
     [id |-> "w7", name |-> OakAveName, coordinate |-> Coord(200, 200)],
     [id |-> "w1", name |-> MainSt, coordinate |-> Coord(0 - spacingLat, spacingLon)],
     [id |-> "start", name |-> BirchStName, coordinate |-> Coord(3, 3)] >>

AreaStarts == {Coord(0, 0)}

InitArea ==
  /\ \E start \in AreaStarts,
        idx \in {chosen \in SUBSET (1..Len(AreaStreetPool)) :
                   Cardinality(chosen) <= MaxStreets} :
       areaGraph = [pc |-> "input", start |-> start,
                    streets |-> SubsequenceAt(AreaStreetPool, idx)]
  /\ search = Idle
  /\ cov = Idle
  /\ shape = Idle
  /\ shared = Idle
  /\ build = Idle
  /\ osrm = Idle
  /\ api = Idle
  /\ seed = Idle

\* createStreetAreaGraph(start, streets) returns
AreaBuild ==
  /\ areaGraph.pc = "input"
  /\ areaGraph' = [pc |-> "built", start |-> areaGraph.start, streets |-> areaGraph.streets,
                   graph |-> createStreetAreaGraph(areaGraph.start, areaGraph.streets)]
  /\ UNCHANGED <<search, cov, shape, shared, build, osrm, api, seed>>

NextArea == AreaBuild

SpecArea == InitArea /\ [][NextArea]_vars

(***************************************************************************)
(* Reference notions for the search claims, defined on (node, previous     *)
(* node) pairs and on the adjacency index, independently of the search.    *)
(***************************************************************************)
AllTraversable(graph) ==
  UNION {Range(graph.traversableFrom[i].v) : i \in 1..Len(graph.traversableFrom)}

NodeCoordinate(graph, nodeId) == MapGet(graph.nodes, nodeId).coordinate

\* the (node, previous node) pairs a walk from startNodeId can be in
WalkStates(graph, startNodeId) ==
  {<<startNodeId, None>>}
    \cup {<<e.toNodeId, Some(e.fromNodeId)>> : e \in AllTraversable(graph)}

\* one round of relaxation of the walk costs D (-1: no walk known)
WalkRelax(graph, weights, D) ==
  [st \in DOMAIN D |->
     LET steps == {pe \in (DOMAIN D) \X AllTraversable(graph) :
                     /\ D[pe[1]] >= 0
                     /\ pe[1][1] = pe[2].fromNodeId
                     /\ pe[2].toNodeId = st[1]
                     /\ st[2] = Some(pe[2].fromNodeId)}
         costs == {D[pe[1]] + scoreEdgeTraversal(pe[2], weights)
                     + (IF pe[1][2] = None THEN 0
                        ELSE scoreTurn(NodeCoordinate(graph, pe[1][2][1]),
                                       NodeCoordinate(graph, pe[1][1]),
                                       NodeCoordinate(graph, st[1]), weights)) :
                   pe \in steps}
                   \cup (IF D[st] >= 0 THEN {D[st]} ELSE {})
     IN IF costs = {} THEN -1 ELSE SetMin(costs)]

RECURSIVE WalkFixpoint(_, _, _)
WalkFixpoint(graph, weights, D) ==
  LET next == WalkRelax(graph, weights, D)
  IN IF next = D THEN D ELSE WalkFixpoint(graph, weights, next)

\* the least cost of a directed walk to each pair (-1: none)
WalkCosts(graph, startNodeId, weights) ==
  WalkFixpoint(graph, weights,
               [st \in WalkStates(graph, startNodeId) |->
                  IF st = <<startNodeId, None>> THEN 0 ELSE -1])

WalkExists(graph, startNodeId, endNodeId) ==
  LET D == WalkCosts(graph, startNodeId, DistanceOnlyWeights)
  IN \E st \in DOMAIN D : st[1] = endNodeId /\ D[st] >= 0

MinWalkCost(graph, startNodeId, endNodeId, weights) ==
  LET D == WalkCosts(graph, startNodeId, weights)
  IN SetMin({D[st] : st \in {x \in DOMAIN D : x[1] = endNodeId /\ D[x] >= 0}})

\* createKey gives distinct pairs of this search distinct keys
KeysDistinct(graph, startNodeId) ==
  \A p, q \in WalkStates(graph, startNodeId) :
    createKey(p[1], p[2]) = createKey(q[1], q[2]) => p = q

\* a PathResult is well formed for a request
WellFormedPath(graph, startNodeId, endNodeId, path) ==
  /\ Len(path.nodeIds) >= 1
  /\ path.nodeIds[1] = startNodeId
  /\ path.nodeIds[Len(path.nodeIds)] = endNodeId
  /\ Len(path.traversedEdges) = Len(path.nodeIds) - 1
  /\ \A i \in 1..Len(path.traversedEdges) :
       /\ path.traversedEdges[i].fromNodeId = path.nodeIds[i]
       /\ path.traversedEdges[i].toNodeId = path.nodeIds[i + 1]
       /\ path.traversedEdges[i] \in AllTraversable(graph)
  /\ path.totalDistanceMeters = SumSeq(path.traversedEdges, LAMBDA e : e.lengthMeters)

\* C1: whenever findPath returns, its totalCost is the least cost of a directed
\* walk from start to end (edge scores plus a turn score at every interior node).
C1_TotalCostIsMinimal ==
  search.status = "returned" =>
    search.result[1].totalCost =
      MinWalkCost(search.graph, search.startNodeId, search.endNodeId, search.weights)

\* C1 restricted to the graphs on which createKey separates the pairs.
C1_MinimalWhenKeysDistinct ==
  (search.status = "returned" /\ KeysDistinct(search.graph, search.startNodeId)) =>
    search.result[1].totalCost =
      MinWalkCost(search.graph, search.startNodeId, search.endNodeId, search.weights)

\* C2: every PathResult findPath returns is well formed: it starts at start, ends
\* at end, its i-th edge joins nodeIds[i] to nodeIds[i+1] and is in the adjacency
\* index, and totalDistanceMeters is the sum of the edges' lengths.
C2_PathWellFormed ==
  search.status = "returned" =>
    WellFormedPath(search.graph, search.startNodeId, search.endNodeId, search.result[1])

\* C2 restricted to the graphs on which createKey separates the pairs.
C2_WellFormedWhenKeysDistinct ==
  (search.status = "returned" /\ KeysDistinct(search.graph, search.startNodeId)) =>
    WellFormedPath(search.graph, search.startNodeId, search.endNodeId, search.result[1])

\* C3: findPath throws "no path" if and only if no directed walk leads from start
\* to end: it never throws when one exists, and never returns when none does.
C3_ThrowsIffUnreachable ==
  /\ search.status = "threw" =>
       ~WalkExists(search.graph, search.startNodeId, search.endNodeId)
  /\ search.status = "returned" =>
       WalkExists(search.graph, search.startNodeId, search.endNodeId)

\* C3 restricted to the graphs on which createKey separates the pairs.
C3_IffWhenKeysDistinct ==
  KeysDistinct(search.graph, search.startNodeId) => C3_ThrowsIffUnreachable

(***************************************************************************)
(* The optimizers' claims.                                                 *)
(***************************************************************************)
NoPathError == Some("No path found")

\* C4: a "no path" failure of the search adapter never makes a coverage run fail:
\* the run stops extending and returns the route accumulated so far.
C4_NoPathNeverRejectsCoverage == ~(cov.pc = "failed" /\ cov.error = NoPathError)

\* C5: a "no path" failure of the search adapter between two snapped shape nodes
\* never makes a shape run fail: the run returns the edges accumulated so far.
C5_NoPathNeverRejectsShape == ~(shape.pc = "failed" /\ shape.error = NoPathError)

\* the length of the longest directed edge of the run's graph (0 if none)
longestEdge(c) ==
  IF c.allEdges = <<>> THEN 0
  ELSE LET lengths == {c.allEdges[k].lengthMeters : k \in 1..Len(c.allEdges)}
       IN CHOOSE m \in lengths : \A n \in lengths : n <= m

\* C6: a run with maxDistanceMeters = 0 never appends the return path and returns
\* a distance that exceeds the cap 0 by at most one edge.
C6_ZeroCapIsEnforced ==
  (cov.pc = "done" /\ cov.request.maxDistanceMeters = Some(0)) =>
    /\ ~cov.returnAppended
    /\ cov.result[1].distanceMeters <= longestEdge(cov)

positiveCap(c) ==
  c.request.maxDistanceMeters # None /\ c.request.maxDistanceMeters[1] > 0

\* C7: in every run of the in-memory adapter with a positive cap the accumulated
\* distance is at most the cap after every selection step, and the returned
\* distanceMeters (with the return path, if it was appended) is at most the cap.
C7_DistanceWithinCap ==
  (cov.pc \in {"select", "return", "done"} /\ positiveCap(cov)) =>
    /\ cov.currentDistanceMeters <= cov.request.maxDistanceMeters[1]
    /\ cov.pc = "done" =>
         cov.result[1].distanceMeters <= cov.request.maxDistanceMeters[1]

\* C7 restricted to the runs in which every path the adapter returned had a
\* totalDistanceMeters equal to the sum of its edges' lengths.
C7_WithinCapWhenPathsExact ==
  (cov.pc \in {"select", "return", "done"} /\ positiveCap(cov) /\ cov.adapterExact) =>
    /\ cov.currentDistanceMeters <= cov.request.maxDistanceMeters[1]
    /\ cov.pc = "done" =>
         /\ cov.result[1].distanceMeters <= cov.request.maxDistanceMeters[1]
         /\ cov.result[1].distanceMeters = distanceOf(cov.traversed)
         /\ ~cov.returnAppended => cov.result[1].distanceMeters = cov.currentDistanceMeters

\* a finished run under a positive cap, all of its paths exact, that selected
\* anchors, walked to them and appended the return path
C7_ExactRunFinished ==
  /\ cov.pc = "done" /\ cov.request.maxDistanceMeters = Some(MidCap) /\ cov.adapterExact
  /\ cov.returnAppended
  /\ Len(cov.anchors) >= 2
  /\ cov.result[1].distanceMeters > 0

\* the graph that the priority "supplied, else catalog, else seed" gives a run
graphByPriority(c) ==
  IF c.dependencies.graph # None THEN c.dependencies.graph[1]
  ELSE IF c.dependencies.streetCatalog # None
            /\ ~c.dependencies.streetCatalog[1].throws
            /\ Len(c.dependencies.streetCatalog[1].streets) > 2
  THEN createStreetAreaGraph(c.request.start, c.dependencies.streetCatalog[1].streets)
  ELSE createSeedRoadGraph(
         IF c.request.area # None THEN c.request.area[1].center ELSE c.request.start,
         IF c.request.area # None THEN Some(c.request.area[1].radiusMeters) ELSE None)

\* C8: the working graph is the supplied graph when one is given, else the
\* catalog's street-area graph when the catalog returns more than 2 candidates,
\* else the seed graph of the requested radius.
C8_GraphByPriority == cov.pc \notin {"idle", "resolve"} => cov.graph = graphByPriority(cov)

catalogFallsBack(c) ==
  /\ c.dependencies.streetCatalog # None
  /\ \/ c.dependencies.streetCatalog[1].throws
     \/ Len(c.dependencies.streetCatalog[1].streets) <= 2

\* what of a finished run does not depend on the clock
outcomeOf(c) ==
  [pc |-> c.pc, error |-> c.error, graph |-> c.graph, traversed |-> c.traversed,
   route |-> IF c.result = None THEN None
             ELSE Some([distanceMeters |-> c.result[1].distanceMeters,
                        segments |-> c.result[1].segments,
                        coverage |-> c.result[1].coverage,
                        mode |-> c.result[1].mode, name |-> c.result[1].name])]

\* C9: when the catalog throws or returns 2 or fewer candidates, the run ends as
\* the run of the same request with no catalog configured ends: same graph, same
\* segments, same distance, and a failure only where that run fails too.
C9_CatalogFallback ==
  (cov.pc \in {"done", "failed"} /\ catalogFallsBack(cov)) =>
    outcomeOf(cov) =
      outcomeOf(optimizeCoverageRoute(cov.request,
                                      [cov.dependencies EXCEPT !.streetCatalog = None],
                                      0, 0))

\* a finished run whose catalog threw, on the seed graph, with a route of
\* several segments
C9_Witness ==
  /\ cov.pc = "done"
  /\ cov.dependencies.streetCatalog # None /\ cov.dependencies.streetCatalog[1].throws
  /\ cov.dependencies.graph = None
  /\ Len(cov.result[1].segments) >= 2

\* the name contains the target, letter case ignored
containsIgnoringCase(name, target) == includes(toLowerCase(name), toLowerCase(target))

onSeedGraph(c) ==
  c.dependencies.graph = None /\ (c.dependencies.streetCatalog = None \/ catalogFallsBack(c))

\* C10: in target_streets mode with a non-empty target list every selected anchor's
\* street name contains a target (case ignored), matchedStreetCount is the number
\* of anchors selected, and on a seed graph with target "Ave" and a large cap the
\* returned matchedStreetCount is at least 1.
C10_AnchorsMatchTargets ==
  (cov.pc \in {"select", "return", "done"} /\ cov.strategy = "target_streets"
     /\ Len(cov.request.targetStreets) > 0) =>
    /\ \A k \in 1..Len(cov.anchors) :
         \E t \in 1..Len(cov.request.targetStreets) :
           containsIgnoringCase(cov.anchors[k].streetName, cov.request.targetStreets[t])
    /\ cov.matchedStreetCount = Len(cov.anchors)
    /\ (cov.pc = "done" /\ onSeedGraph(cov) /\ cov.request.targetStreets = <<AveTarget>>
          /\ cov.request.maxDistanceMeters = Some(LargeCap)) =>
         cov.result[1].coverage.matchedStreetCount >= 1

\* a finished target_streets run on the seed graph, target "Ave", large cap, with
\* anchors selected
C10_Witness ==
  /\ cov.pc = "done" /\ cov.strategy = "target_streets" /\ onSeedGraph(cov)
  /\ cov.request.targetStreets = <<AveTarget>>
  /\ cov.request.maxDistanceMeters = Some(LargeCap)
  /\ Len(cov.anchors) >= 1
  /\ cov.result[1].coverage.matchedStreetCount = Len(cov.anchors)

(***************************************************************************)
(* Letters, idempotence and interleaving of the optimizers.                *)
(***************************************************************************)
\* the leading letters of the anchors, in the order of their selection
anchorLetters(c) ==
  [k \in 1..Len(c.anchors) |-> firstLetter(c.anchors[k].streetName)]

\* a sequence of letters in strictly ascending alphabetical order
strictlyAscending(letters) ==
  \A k \in 1..(Len(letters) - 1) :
    IndexOf(ALPHABET, letters[k]) < IndexOf(ALPHABET, letters[k + 1])

\* C11: in alphabet mode no letter is claimed twice: the k-th covered letter is the
\* leading letter of the k-th anchor, the unclaimed set is the requested letters
\* less the covered ones (so each anchor's letter was unclaimed when selected and
\* is removed), lettersCovered is sorted ascending without duplicates, a subset of
\* lettersRequested, and as long as the list of anchors; lettersRequested is
\* empty in target_streets mode.
C11_NoLetterClaimedTwice ==
  /\ (cov.pc \in {"select", "return", "done"} /\ cov.strategy = "alphabet") =>
       /\ anchorLetters(cov) = [k \in 1..Len(cov.coveredLetters) |-> Some(cov.coveredLetters[k])]
       /\ \A j, k \in 1..Len(cov.coveredLetters) :
            cov.coveredLetters[j] = cov.coveredLetters[k] => j = k
       /\ Range(cov.remaining) = Range(cov.targetLetters) \ Range(cov.coveredLetters)
       /\ Range(cov.coveredLetters) \subseteq Range(cov.targetLetters)
       /\ cov.pc = "done" =>
            /\ strictlyAscending(cov.result[1].coverage.lettersCovered)
            /\ Range(cov.result[1].coverage.lettersCovered)
                 \subseteq Range(cov.result[1].coverage.lettersRequested)
            /\ Len(cov.result[1].coverage.lettersCovered) = Len(cov.anchors)
  /\ (cov.pc = "done" /\ cov.strategy = "target_streets") =>
       cov.result[1].coverage.lettersRequested = <<>>

\* a finished alphabet run with several anchors whose letters were covered out of
\* alphabetical order
C11_Witness ==
  /\ cov.pc = "done" /\ cov.strategy = "alphabet"
  /\ Len(cov.anchors) >= 2
  /\ ~strictlyAscending(cov.coveredLetters)
  /\ Len(cov.result[1].coverage.lettersCovered) = Len(cov.anchors)

\* what two routes must share to count as the same route: all but id and
\* createdAtIso
routeBody(route) ==
  [mode |-> route.mode, name |-> route.name, distanceMeters |-> route.distanceMeters,
   segments |-> route.segments, coverage |-> route.coverage]

\* how a coverage run ended, its route without id and createdAtIso
endingOf(c) ==
  [pc |-> c.pc, error |-> c.error,
   route |-> IF c.result = None THEN None ELSE Some(routeBody(c.result[1]))]

shapeEndingOf(s) ==
  [pc |-> s.pc, error |-> s.error,
   route |-> IF s.result = None THEN None
             ELSE Some([mode |-> s.result[1].mode, name |-> s.result[1].name,
                        distanceMeters |-> s.result[1].distanceMeters,
                        segments |-> s.result[1].segments])]

\* the run ends as its request ends when run alone on the graph as built
endsAsAlone(run, built) ==
  IF run.kind = "coverage"
  THEN endingOf(run.st)
         = endingOf(optimizeCoverageRoute(run.st.request,
                                          CoverageDependencies(Some(built), None), 0, 0))
  ELSE shapeEndingOf(run.st)
         = shapeEndingOf(optimizeShapeRoute(run.st.request, [graph |-> Some(built)], 0, 0))

\* C13: of two runs that share one graph and interleave at their awaits, no step
\* changes the graph's node map, edge map or adjacency index, and each run ends
\* (route or rejection) as it ends when run alone.
C13_InterleavedRunsEndAsAlone ==
  shared.pc = "running" =>
    /\ shared.graph = shared.built
    /\ \A k \in 1..2 :
         shared.runs[k].st.pc \in {"done", "failed"} => endsAsAlone(shared.runs[k], shared.built)

\* a coverage run and a shape run on one graph, both finished with routes of
\* several segments, the coverage run having stepped while the shape run was
\* under way
C13_Witness ==
  /\ shared.pc = "running" /\ shared.switched
  /\ shared.runs[1].kind = "coverage" /\ shared.runs[2].kind = "shape"
  /\ shared.runs[1].st.pc = "done" /\ shared.runs[2].st.pc = "done"
  /\ Len(shared.runs[1].st.result[1].segments) >= 2
  /\ Len(shared.runs[2].st.result[1].segments) >= 2

(***************************************************************************)
(* The claims on createRoadGraph and findNearestNodeId.                    *)
(***************************************************************************)
\* the node ids the edge map and the adjacency index of a graph refer to
referencedNodeIds(graph) ==
  {graph.edges[i].v.fromNodeId : i \in 1..Len(graph.edges)}
    \cup {graph.edges[i].v.toNodeId : i \in 1..Len(graph.edges)}
    \cup {graph.traversableFrom[i].k : i \in 1..Len(graph.traversableFrom)}
    \cup {e.toNodeId : e \in AllTraversable(graph)}

\* C14: in every graph createRoadGraph built, every node id an edge of the edge map
\* refers to, and every key and toNodeId of the adjacency index, is a key of the
\* node map.
C14_ReferencedNodesExist ==
  build.pc \in {"built", "snapped", "failed"} =>
    referencedNodeIds(build.graph) \subseteq Range(MapKeys(build.graph.nodes))

\* the directed edges that an input edge is to give, written out field by field
expectedForward(edge) ==
  [edgeId |-> edge.id, fromNodeId |-> edge.fromNodeId, toNodeId |-> edge.toNodeId,
   lengthMeters |-> edge.lengthMeters, streetName |-> edge.streetName,
   hasSidewalk |-> edge.hasSidewalk, litAtNight |-> edge.litAtNight,
   trafficStress |-> edge.trafficStress,
   elevationGainMeters |-> edge.elevationGainMeters]

expectedReverse(edge) ==
  [edgeId |-> edge.id, fromNodeId |-> edge.toNodeId, toNodeId |-> edge.fromNodeId,
   lengthMeters |-> edge.lengthMeters, streetName |-> edge.streetName,
   hasSidewalk |-> edge.hasSidewalk, litAtNight |-> edge.litAtNight,
   trafficStress |-> edge.trafficStress,
   elevationGainMeters |-> 0 - edge.elevationGainMeters]

\* all of them, in input order, the forward edge before its reverse
RECURSIVE expectedTraversable(_)
expectedTraversable(edges) ==
  IF edges = <<>> THEN <<>>
  ELSE expectedTraversable(SubSeq(edges, 1, Len(edges) - 1))
         \o <<expectedForward(edges[Len(edges)])>>
         \o (IF edges[Len(edges)].bidirectional
             THEN <<expectedReverse(edges[Len(edges)])>> ELSE <<>>)

\* C15: createRoadGraph gives, for every input edge, one directed edge from->to,
\* and for a bidirectional edge also one to->from with the elevation gain negated
\* and the other attributes unchanged; the adjacency entry of a node id lists
\* exactly those that start at it, in input order, and there are no other entries.
C15_EdgesExpandInOrder ==
  build.pc \in {"built", "snapped", "failed"} =>
    /\ \A i \in 1..Len(build.graph.traversableFrom) :
         build.graph.traversableFrom[i].v
           = SelectSeq(expectedTraversable(build.edges),
                       LAMBDA t : t.fromNodeId = build.graph.traversableFrom[i].k)
    /\ \A j, i \in 1..Len(build.graph.traversableFrom) :
         build.graph.traversableFrom[i].k = build.graph.traversableFrom[j].k => i = j
    /\ \A t \in Range(expectedTraversable(build.edges)) :
         \E i \in 1..Len(build.graph.traversableFrom) :
           build.graph.traversableFrom[i].k = t.fromNodeId
    /\ SumSeq(build.graph.traversableFrom, LAMBDA entry : Len(entry.v))
         = Len(build.edges)
             + Cardinality({i \in 1..Len(build.edges) : build.edges[i].bidirectional})

\* a graph built from a one-way edge, a bidirectional edge with a gain and a
\* bidirectional edge from a node to itself
C15_Witness ==
  /\ build.pc = "built"
  /\ Len(build.edges) = 3
  /\ \E i, j, k \in 1..3 :
       /\ ~build.edges[i].bidirectional
       /\ build.edges[j].bidirectional /\ build.edges[j].elevationGainMeters > 0
            /\ build.edges[j].fromNodeId # build.edges[j].toNodeId
       /\ build.edges[k].bidirectional /\ build.edges[k].fromNodeId = build.edges[k].toNodeId
  /\ Len(build.graph.traversableFrom) >= 2

\* C16: findNearestNodeId throws the empty-graph error if and only if the graph has
\* no node; on a graph with a node, whatever the node ids are, it returns the id
\* of a node of the graph, and on a one-node graph the id of that node.
C16_ThrowsIffNoNodes ==
  /\ build.pc = "failed" => Len(build.graph.nodes) = 0
  /\ build.pc = "snapped" =>
       /\ Len(build.graph.nodes) > 0
       /\ build.nearest[1] \in Range(MapKeys(build.graph.nodes))
       /\ Len(build.graph.nodes) = 1 => build.nearest[1] = build.graph.nodes[1].k

\* C16 restricted to the graphs none of whose node ids is the empty string.
C16_IffWhenIdsNonEmpty ==
  (build.pc \in {"snapped", "failed"} /\ "" \notin Range(MapKeys(build.graph.nodes)))
    => C16_ThrowsIffNoNodes

(***************************************************************************)
(* The claims on optimizeShapeRoute.                                       *)
(***************************************************************************)
\* the id of the first node of the node map at the least distance from point
firstNearest(graph, point) ==
  graph.nodes[CHOOSE i \in 1..Len(graph.nodes) :
                /\ \A j \in 1..Len(graph.nodes) :
                     distanceMeters(graph.nodes[i].v.coordinate, point)
                       <= distanceMeters(graph.nodes[j].v.coordinate, point)
                /\ \A j \in 1..(i - 1) :
                     distanceMeters(graph.nodes[j].v.coordinate, point)
                       > distanceMeters(graph.nodes[i].v.coordinate, point)].k

\* zero points, one point, or points that are all nearest to one node
pointsMeetInOneNode(graph, points) ==
  \/ Len(points) <= 1
  \/ \A k \in 1..Len(points) : firstNearest(graph, points[k]) = firstNearest(graph, points[1])

\* C17: on a non-empty graph a shape run with zero points, one point or points
\* that all snap to one node ends with a route of zero segments and distance 0,
\* having made no call of the search adapter; it does not fail.
C17_FewPointsGiveNoSegments ==
  (shape.pc \in {"done", "failed"} /\ Len(shape.graph.nodes) > 0
     /\ pointsMeetInOneNode(shape.graph, shape.request.points)) =>
    /\ shape.pc = "done"
    /\ shape.calls = <<>>
    /\ shape.result[1].segments = <<>>
    /\ shape.result[1].distanceMeters = 0

\* C17 restricted to the graphs none of whose node ids is the empty string.
C17_NoSegmentsWhenIdsNonEmpty ==
  (shape.pc \in {"done", "failed"} /\ "" \notin Range(MapKeys(shape.graph.nodes))) =>
    C17_FewPointsGiveNoSegments

\* a finished run of three points that all snapped to one node
C17_ThreePointsOneNode ==
  /\ shape.pc = "done" /\ Len(shape.request.points) = MaxPoints
  /\ shape.request.points[1] # shape.request.points[2]
  /\ Len(shape.snappedNodes) = 1
  /\ shape.result[1].segments = <<>>

\* the traversed edges that the calls returned, one after the other
RECURSIVE edgesOfCalls(_)
edgesOfCalls(calls) ==
  IF calls = <<>> THEN <<>>
  ELSE edgesOfCalls(SubSeq(calls, 1, Len(calls) - 1))
         \o (IF calls[Len(calls)].path = None THEN <<>>
             ELSE calls[Len(calls)].path[1].traversedEdges)

\* the adapter was called once for each of the first pairs of the snapped
\* sequence, in order, and traversed is what the calls returned, in order
calledPairByPair(s) ==
  /\ Len(s.calls) <= Len(s.snappedNodes) - 1 \/ s.calls = <<>>
  /\ \A k \in 1..Len(s.calls) :
       /\ s.calls[k].startNodeId = s.snappedNodes[k]
       /\ s.calls[k].endNodeId = s.snappedNodes[k + 1]
       /\ s.calls[k].path = None => (k = Len(s.calls) /\ s.pc = "failed")
  /\ s.traversed = edgesOfCalls(s.calls)

\* C18: a shape run calls the adapter exactly once for each consecutive pair of the
\* snapped, collapsed node sequence, in order; the route's edges are the returned
\* traversedEdges concatenated in that order; and the distanceMeters of the route
\* is the sum of the totalDistanceMeters the in-memory adapter returned (for two
\* distinct snapped nodes, the distance findPath gives for that pair).
C18_OneCallPerPairInOrder ==
  /\ shape.pc \in {"extend", "done", "failed"} => calledPairByPair(shape)
  /\ shape.pc = "done" =>
       /\ Len(shape.calls) = Len(shape.snappedNodes) - 1
       /\ shape.result[1].distanceMeters
            = SumSeq(shape.calls, LAMBDA call : call.path[1].totalDistanceMeters)
       /\ Len(shape.snappedNodes) = 2 =>
            shape.result[1].distanceMeters
              = adapterFindPath(shape.graph, shape.snappedNodes[1],
                                shape.snappedNodes[2]).path[1].totalDistanceMeters

\* C18 restricted to the runs in which every path the adapter returned had a
\* totalDistanceMeters equal to the sum of its edges' lengths.
C18_InOrderWhenPathsExact ==
  (shape.pc \in {"extend", "done", "failed"}
     /\ \A k \in 1..Len(shape.calls) :
          shape.calls[k].path # None => pathIsExact(shape.calls[k].path[1]))
    => C18_OneCallPerPairInOrder

\* a finished run over three distinct snapped nodes with edges from both calls
C18_TwoCallsFinished ==
  /\ shape.pc = "done" /\ Len(shape.calls) = 2
  /\ \A k \in 1..2 : shape.calls[k].path[1].traversedEdges # <<>>
  /\ shape.result[1].distanceMeters > 0

(***************************************************************************)
(* The claim on OsrmShortestPathAdapter.findPath.                          *)
(***************************************************************************)
\* the remote call of the finished call was made and failed
remoteFailed ==
  /\ osrm.pc = "ended"
  /\ osrmRemote(osrm.request, osrm.remote[1]).status = "threw"

\* C19: when the remote call fails (transport error, status that is not ok,
\* response without two geometry coordinates) an adapter with a fallback
\* answers exactly what the fallback answers to the same request, so an error
\* reaches the caller only if the fallback fails; an adapter without a
\* fallback throws the remote failure.
C19_FallbackOnRemoteFailure ==
  remoteFailed =>
    IF osrm.fallback # None
    THEN /\ osrm.outcome[1] = fallbackFindPath(osrm.request)
         /\ osrm.outcome[1].status = "threw" =>
              fallbackFindPath(osrm.request).status = "threw"
    ELSE osrm.outcome[1] = osrmRemote(osrm.request, osrm.remote[1])

\* a remote call failed for want of geometry and the fallback's path is returned
C19_Witness ==
  /\ remoteFailed
  /\ osrm.remote[1].kind = "body"
  /\ osrm.fallback # None
  /\ osrm.outcome[1].status = "returned"
  /\ Len(osrm.outcome[1].path[1].traversedEdges) > 0

(***************************************************************************)
(* The claim on the route store of the API server.                         *)
(***************************************************************************)
\* the routes that request r wrote to the route store, at any time so far
writtenBy(r) == {api.writes[i].route : i \in {j \in 1..Len(api.writes) : api.writes[j].request = r}}

\* request r was answered with the status
answeredWith(r, status) ==
  api.calls[r].reply # None /\ api.calls[r].reply[1].status = status

\* C20: a coverage route is written to the route store if and only if its
\* request is answered with that route; after 504, 500, 502 or 400 no route
\* of the request is in the store or was ever written to it, also not once the
\* generation of a timed-out request has finished.
C20_StoredIffAnswered ==
  api.pc # "idle" =>
    /\ \A r \in 1..Len(ApiBodies) :
         /\ writtenBy(r) # {} <=> answeredWith(r, 200)
         /\ \A route \in writtenBy(r) : api.calls[r].reply[1].payload = route
         /\ (\E status \in {504, 500, 502, 400} : answeredWith(r, status)) =>
              /\ writtenBy(r) = {}
              /\ \A i \in 1..Len(api.routeStore) :
                   api.routeStore[i].v.name # generatedRoute(api.calls[r].body, 0, <<>>).name
    /\ \A i \in 1..Len(api.routeStore) :
         \E r \in 1..Len(ApiBodies) :
           /\ answeredWith(r, 200)
           /\ api.calls[r].reply[1].payload = api.routeStore[i].v
           /\ api.routeStore[i].k = api.routeStore[i].v.id

\* one request timed out and its generation resolved afterwards, while the other
\* request was answered with its unsnapped route after a failed snapping
C20_Witness ==
  /\ api.pc # "idle"
  /\ \E r \in 1..Len(ApiBodies), other \in 1..Len(ApiBodies) :
       /\ answeredWith(r, 504)
       /\ api.calls[r].generation = "resolved"
       /\ api.calls[r].generated # None
       /\ answeredWith(other, 200)
       /\ api.calls[other].reply[1].payload.coverage[1].snappedToRoads = Some(FALSE)
       /\ Len(api.routeStore) = 1

(***************************************************************************)
(* The claim on the snap metadata of the coverage responses.               *)
(***************************************************************************)
\* the route request r was answered with, and what its generation resolved with
answeredRoute(r) == api.calls[r].reply[1].payload

\* the answered route has the segments of the optimizer, none of the service
unsnappedSegments(r) == answeredRoute(r).segments = api.calls[r].generated[1].segments

\* C21: every successful POST /routes/coverage response carries
\* coverage.snappedToRoads, and a response whose segments are the optimizer's
\* unsnapped segments has snappedToRoads false and a snapReason; snappedToRoads
\* is true only for segments made from the geometry of the routing service.
C21_SnappedOnlyFromOsrmGeometry ==
  api.pc # "idle" =>
    \A r \in 1..Len(ApiBodies) :
      answeredWith(r, 200) =>
        /\ answeredRoute(r).coverage[1].snappedToRoads # None
        /\ unsnappedSegments(r) =>
             /\ answeredRoute(r).coverage[1].snappedToRoads = Some(FALSE)
             /\ answeredRoute(r).coverage[1].snapReason # None

\* the same for the routes whose points are two or more after deduplication
C21_HoldsForRoutesWithTwoPoints ==
  api.pc # "idle" =>
    \A r \in 1..Len(ApiBodies) :
      (/\ answeredWith(r, 200)
       /\ Len(dedupeConsecutivePoints(routePoints(api.calls[r].generated[1]))) >= 2) =>
        /\ answeredRoute(r).coverage[1].snappedToRoads # None
        /\ unsnappedSegments(r) =>
             /\ answeredRoute(r).coverage[1].snappedToRoads = Some(FALSE)
             /\ answeredRoute(r).coverage[1].snapReason # None

\* a route was answered as snapped with segments made by the routing service
C21_SnappedRouteAnswered ==
  /\ api.pc # "idle"
  /\ \E r \in 1..Len(ApiBodies) :
       /\ answeredWith(r, 200)
       /\ answeredRoute(r).coverage[1].snappedToRoads = Some(TRUE)
       /\ ~unsnappedSegments(r)

(***************************************************************************)
(* The claim on the selection step of the coverage optimizer.              *)
(***************************************************************************)
\* the run is about to pass the selection loop once more, with a cap set and
\* with candidates
selectingUnderCap ==
  /\ cov.pc = "select"
  /\ cov.i < cov.maxSelections
  /\ cov.request.maxDistanceMeters # None
  /\ cov.request.maxDistanceMeters[1] # 0
  /\ Len(coverageCandidates(cov)) > 0

\* the ranked candidates of the step
shortlistedNow ==
  shortlistCandidates(cov.currentNodeId, cov.startNodeId, cov.graph,
                      coverageCandidates(cov), cov.strategy, cov.letterFrequency,
                      cov.usedStreetNames)

\* the projected total distance of the claim is within the cap: the current
\* distance, the shortest-path distance to the candidate's start node, the
\* candidate's length and the approximate distance back to the start
projectedWithinCap(candidate, toStart) ==
  /\ toStart.status = "returned"
  /\ cov.currentDistanceMeters + toStart.path[1].totalDistanceMeters
       + candidate.lengthMeters
       + approximateNodeDistanceMeters(cov.graph, candidate.toNodeId, cov.startNodeId)
       <= cov.request.maxDistanceMeters[1]

passesProjection(candidate) ==
  projectedWithinCap(candidate,
                     adapterFindPath(cov.graph, cov.currentNodeId, candidate.fromNodeId))

\* the first ranked candidate that passes, None if none does
firstPassing(shortlisted) ==
  IF \A k \in 1..Len(shortlisted) : ~passesProjection(shortlisted[k]) THEN None
  ELSE Some(shortlisted[CHOOSE k \in 1..Len(shortlisted) :
                          /\ passesProjection(shortlisted[k])
                          /\ \A j \in 1..(k - 1) : ~passesProjection(shortlisted[j])])

\* the step takes the expected candidate as its next anchor, or stops selecting
\* when none is expected
stepTakes(expected, next) ==
  IF expected = None THEN next.pc = "return" /\ next.anchors = cov.anchors
  ELSE next.pc = "select" /\ next.anchors = Append(cov.anchors, expected[1])

\* C22: with a cap set, a selection step selects the first ranked candidate whose
\* projected total distance (current distance + shortest-path distance to the
\* candidate's start node + candidate length + approximate return distance) is
\* within the cap, skipping the candidates that fail, and selection stops only
\* when no shortlisted candidate passes.
C22_FirstCandidateWithinCap ==
  selectingUnderCap => stepTakes(firstPassing(shortlistedNow), coverageSelect(cov))

\* what the step does: it takes the first ranked candidate within the budget by
\* approximate distances if the path found to it keeps the distance within the
\* cap, and stops selecting otherwise
C22_FirstWithinApproximateBudget ==
  selectingUnderCap =>
    LET selected == firstWithinBudget(cov, shortlistedNow)
    IN IF selected = None THEN stepTakes(None, coverageSelect(cov))
       ELSE \/ coverageSelect(cov).pc = "failed"
            \/ stepTakes(selected, coverageSelect(cov))
            \/ /\ stepTakes(None, coverageSelect(cov))
               /\ cov.currentDistanceMeters
                    + adapterFindPath(cov.graph, cov.currentNodeId,
                                      selected[1].fromNodeId).path[1].totalDistanceMeters
                    + selected[1].lengthMeters > cov.request.maxDistanceMeters[1]

\* a step under a cap in which the first ranked candidate fails the projection
\* and a later one passes it
C22_LaterCandidatePasses ==
  /\ selectingUnderCap
  /\ ~passesProjection(shortlistedNow[1])
  /\ firstPassing(shortlistedNow) # None

(***************************************************************************)
(* The claim on the best-cost records of the in-memory search.             *)
(***************************************************************************)
\* the record kept under the key of a queued state is that of the state's own
\* (node, previous node) pair
ownRecord(s, state) ==
  /\ s.stateMap[state.key].nodeId = state.nodeId
  /\ s.stateMap[state.key].previousNodeId = state.previousNodeId

\* C23: the best-cost record that decides a relaxation is per exact (node,
\* previous node) pair: two states share a record if and only if they have the
\* same node and the same previous node, whatever the node ids are.
C23_RecordPerExactPair ==
  search # Idle =>
    /\ KeysDistinct(search.graph, search.startNodeId)
    /\ \A i \in 1..Len(search.open) : ownRecord(search, search.open[i])

\* a queued state whose record was overwritten by a state of another pair
C23_RecordOverwritten ==
  /\ search # Idle
  /\ \E i \in 1..Len(search.open) : ~ownRecord(search, search.open[i])

\* on graphs whose pairs have distinct keys every queued state has its own record
C23_OwnRecordWhenKeysDistinct ==
  (search # Idle /\ KeysDistinct(search.graph, search.startNodeId)) =>
    \A i \in 1..Len(search.open) : ownRecord(search, search.open[i])

(***************************************************************************)
(* The claim on the paths built from the answers of the routing service.   *)
(***************************************************************************)
\* each traversed edge joins consecutive entries of nodeIds
edgesJoinNodeIds(path) ==
  /\ Len(path.traversedEdges) = Len(path.nodeIds) - 1
  /\ \A k \in 1..Len(path.traversedEdges) :
       /\ path.traversedEdges[k].fromNodeId = path.nodeIds[k]
       /\ path.traversedEdges[k].toNodeId = path.nodeIds[k + 1]

\* C24: every PathResult that OsrmShortestPathAdapter.findPath returns from a
\* successful remote response has each traversed edge joining consecutive
\* entries of nodeIds, and totalDistanceMeters equal to the sum of the
\* traversed edges' lengthMeters.
C24_RemotePathWellFormed ==
  osrm.pc = "returned" =>
    /\ edgesJoinNodeIds(osrm.outcome[1].path[1])
    /\ pathIsExact(osrm.outcome[1].path[1])

\* a path returned from a geometry of three coordinates
C24_PathOfTwoEdges ==
  /\ osrm.pc = "returned"
  /\ Len(osrm.outcome[1].path[1].traversedEdges) = 2

\* the edges of a path made from exactly two coordinates join its nodeIds
C24_OneEdgeJoinsNodeIds ==
  (osrm.pc = "returned" /\ Len(osrm.outcome[1].path[1].traversedEdges) = 1) =>
    edgesJoinNodeIds(osrm.outcome[1].path[1])

(***************************************************************************)
(* The claim on createSeedRoadGraph.                                       *)
(***************************************************************************)
\* s = min(27, max(7, 2 * ceil(radiusMeters / 175) + 1)), 7 without a radius
latticeSize(radiusMeters) ==
  IF radiusMeters = None THEN 7
  ELSE LET ceiling == CHOOSE c \in -2..600 :
                        c * 175 >= radiusMeters[1] /\ (c - 1) * 175 < radiusMeters[1]
       IN Min2(27, Max2(7, 2 * ceiling + 1))

\* the pairs of horizontally or vertically adjacent nodes of an s x s lattice
latticeNeighbours(s) ==
  {{seedNodeId(y, x), seedNodeId(y, x + 1)} : y \in 0..(s - 1), x \in 0..(s - 2)}
    \cup {{seedNodeId(y, x), seedNodeId(y + 1, x)} : y \in 0..(s - 2), x \in 0..(s - 1)}

\* the steps between adjacent nodes, both ways, each under its first node
latticeSteps(s) ==
  UNION {{<<seedNodeId(y, x), seedNodeId(y, x), seedNodeId(y, x + 1)>>,
          <<seedNodeId(y, x + 1), seedNodeId(y, x + 1), seedNodeId(y, x)>>} :
           y \in 0..(s - 1), x \in 0..(s - 2)}
    \cup UNION {{<<seedNodeId(y, x), seedNodeId(y, x), seedNodeId(y + 1, x)>>,
                 <<seedNodeId(y + 1, x), seedNodeId(y + 1, x), seedNodeId(y, x)>>} :
                  y \in 0..(s - 2), x \in 0..(s - 1)}

\* the graph is the s x s lattice: s * s nodes, one bidirectional edge for every
\* pair of adjacent nodes and no other edge, traversable both ways
isLattice(graph, s) ==
  /\ {graph.nodes[i].k : i \in 1..Len(graph.nodes)}
       = {seedNodeId(y, x) : y \in 0..(s - 1), x \in 0..(s - 1)}
  /\ Len(graph.nodes) = s * s
  /\ Len(graph.edges) = 2 * s * (s - 1)
  /\ \A i \in 1..Len(graph.edges) : graph.edges[i].v.bidirectional
  /\ {{graph.edges[i].v.fromNodeId, graph.edges[i].v.toNodeId} : i \in 1..Len(graph.edges)}
       = latticeNeighbours(s)
  /\ UNION {{<<graph.traversableFrom[i].k, graph.traversableFrom[i].v[k].fromNodeId,
                graph.traversableFrom[i].v[k].toNodeId>> :
                 k \in 1..Len(graph.traversableFrom[i].v)} :
               i \in 1..Len(graph.traversableFrom)}
       = latticeSteps(s)
  /\ SumSeq(graph.traversableFrom, LAMBDA entry : Len(entry.v)) = 4 * s * (s - 1)

\* C25: createSeedRoadGraph builds, for every radius or none, the s x s lattice
\* with s = min(27, max(7, 2 * ceil(radiusMeters / 175) + 1)) and s = 7 without
\* a radius, and findPath between two of its nodes never fails.
C25_SeedGraphIsLattice ==
  /\ seed.pc \in {"built", "searched"} =>
       isLattice(seed.graph, latticeSize(seed.radiusMeters))
  /\ seed.pc = "searched" => seed.found.status = "returned"

\* a path between opposite corners of a lattice was found
C25_Witness ==
  /\ seed.pc = "searched"
  /\ seed.startNodeId = seedNodeId(0, 0)
  /\ seed.endNodeId = seedNodeId(6, 6)
  /\ seed.found.status = "returned"
  /\ Len(seed.found.path[1].traversedEdges) = 12

\* a lattice of the largest size was built
C25_LargestLattice ==
  /\ seed.pc = "built"
  /\ Len(seed.graph.nodes) = 27 * 27

(***************************************************************************)
(* The claim on createStreetAreaGraph.                                     *)
(***************************************************************************)
\* the nodes the graph is built from: the start, then the candidates
areaNodes == <<[id |-> "start", coordinate |-> areaGraph.start]>>
               \o [i \in 1..Len(areaGraph.streets) |->
                     [id |-> areaGraph.streets[i].id,
                      coordinate |-> areaGraph.streets[i].coordinate]]

\* the RoadEdges of the graph that leave the node of an id
connectorsFrom(id) ==
  {areaGraph.graph.edges[i].v : i \in {j \in 1..Len(areaGraph.graph.edges) :
                                         areaGraph.graph.edges[j].v.fromNodeId = id}}

\* the connectors of the node are min(5, N - 1), each bidirectional, each named
\* after the candidate at its destination, and no other node is nearer to the
\* node than a destination
connectedToNearest(node) ==
  /\ Cardinality(connectorsFrom(node.id)) = Min2(5, Len(areaNodes) - 1)
  /\ \A edge \in connectorsFrom(node.id) :
       /\ edge.bidirectional
       /\ findStreet(areaGraph.streets, edge.toNodeId) # None =>
            edge.streetName = findStreet(areaGraph.streets, edge.toNodeId)[1].name
       /\ \A i \in 1..Len(areaNodes) :
            (/\ areaNodes[i].id # node.id
             /\ \A other \in connectorsFrom(node.id) : other.toNodeId # areaNodes[i].id) =>
              edge.lengthMeters <= distanceMeters(node.coordinate, areaNodes[i].coordinate)

\* C26: createStreetAreaGraph(start, candidates) with N nodes in total creates,
\* for every node, exactly min(5, N - 1) connector RoadEdges leaving it, to its
\* nearest other nodes, each bidirectional and each labelled with the street
\* name of the candidate at the edge's destination node.
C26_ConnectorsToNearest ==
  areaGraph.pc = "built" =>
    \A i \in 1..Len(areaNodes) : connectedToNearest(areaNodes[i])

\* the candidates' ids are pairwise distinct and none is the id of the start node
areaIdsDistinct ==
  \A i, j \in 1..Len(areaNodes) : areaNodes[i].id = areaNodes[j].id => i = j

\* the same for candidates whose ids are distinct and differ from "start"
C26_HoldsWhenIdsDistinct ==
  (areaGraph.pc = "built" /\ areaIdsDistinct) =>
    \A i \in 1..Len(areaNodes) : connectedToNearest(areaNodes[i])

\* a graph of eight nodes with distinct ids: every node has seven others
C26_EightNodes ==
  /\ areaGraph.pc = "built"
  /\ areaIdsDistinct
  /\ Len(areaNodes) = 8

(***************************************************************************)
(* The claim on the termination of the in-memory search.                   *)
(***************************************************************************)
\* graphs of the pool with cycles: the zero-length two-way edge e7, the
\* two-way edges e6 and e8, and the whole pool
TerminationEdgeChoices == {{1, 2, 7, 8}, {1, 3, 5, 7, 8}, {2, 4, 6, 7, 8, 9}, 1..Len(SearchEdgePool)}

\* a weight vector under which every step costs nothing
ZeroWeights ==
  [distance |-> 0, elevation |-> 0, turns |-> 0, safety |-> 0, uTurn |-> 0]

InitTermination ==
  /\ \E idx \in TerminationEdgeChoices, startNodeId \in SearchNodeIds,
        endNodeId \in SearchNodeIds, weights \in SearchWeights \cup {ZeroWeights} :
       search = searchStart(createRoadGraph(SearchNodes, SubsequenceAt(SearchEdgePool, idx)),
                            startNodeId, endNodeId, weights)
  /\ cov = Idle
  /\ shape = Idle
  /\ shared = Idle
  /\ build = Idle
  /\ osrm = Idle
  /\ api = Idle
  /\ seed = Idle
  /\ areaGraph = Idle

\* the while loop can take a step that changes the state: what
\* ENABLED <<NextSearch>>_vars says, every action being search' = searchStep(search)
loopCanStep == search.status = "running" /\ searchStep(search) # search

\* the while loop of findPath runs on until it returns or throws, nothing
\* suspends it: weak fairness of NextSearch, its enabling condition written out
SpecTermination ==
  InitTermination /\ [][NextSearch]_vars /\ ([]<>(~loopCanStep) \/ []<><<NextSearch>>_vars)

\* C27: InMemoryShortestPathAdapter.findPath terminates, by returning a path or
\* by throwing "No path found", for every finite graph and every weight vector
\* with non-negative components.
C27_FindPathTerminates == <>(search.status \in {"returned", "threw"})

\* a search on a graph with a cycle ended after a state was queued twice for
\* one key
C27_Witness ==
  /\ search.status \in {"returned", "threw"}
  /\ Len(search.open) = 0
  /\ \E e \in AllTraversable(search.graph) : e.toNodeId = search.startNodeId
  /\ Cardinality(DOMAIN search.stateMap) >= 6

(***************************************************************************)
(* The claim on the walk a coverage run accumulates.                       *)
(***************************************************************************)
\* each edge starts where the edge before it ends
contiguous(edges) ==
  \A k \in 2..Len(edges) : edges[k].fromNodeId = edges[k - 1].toNodeId

\* the edges are one walk from a node to a node (the same node when empty)
walkBetween(edges, fromNodeId, toNodeId) ==
  /\ contiguous(edges)
  /\ IF Len(edges) = 0 THEN fromNodeId = toNodeId
     ELSE edges[1].fromNodeId = fromNodeId /\ edges[Len(edges)].toNodeId = toNodeId

coverageUnderWay == cov.pc \in {"select", "return", "done"}

walkOfRun ==
  /\ walkBetween(cov.traversed, cov.startNodeId,
                 IF cov.returnAppended THEN cov.startNodeId ELSE cov.currentNodeId)
  /\ Len(cov.anchors) > 0 =>
       cov.currentNodeId = cov.anchors[Len(cov.anchors)].fromNodeId

\* C28: at every point of a coverage run with the in-memory adapter the
\* accumulated edges are one contiguous walk from the snapped start node to the
\* current node, the current node is the start node of the last selected
\* anchor, and with the return path appended the walk ends at the start node.
C28_TraversedIsOneWalk == coverageUnderWay => walkOfRun

\* the same for the runs in which every path of the adapter was an exact
\* path (no two search states of the graph share a key)
C28_OneWalkWhenPathsExact == (coverageUnderWay /\ cov.adapterExact) => walkOfRun

\* a finished run over two anchors with the return path appended
C28_WalkWithReturn ==
  /\ cov.pc = "done"
  /\ cov.adapterExact
  /\ cov.returnAppended
  /\ Len(cov.anchors) >= 2
  /\ Len(cov.traversed) >= 3
  /\ walkOfRun

(***************************************************************************)
(* The claim on the ids of the stored routes.                              *)
(***************************************************************************)
\* the replies of the POST requests answered so far, coverage and shape
postReplies ==
  {<<"coverage", r, api.calls[r].reply[1]>> :
     r \in {q \in 1..Len(ApiBodies) : api.calls[q].reply # None}}
  \cup {<<"shape", s, api.shapeCalls[s].reply[1]>> :
          s \in {q \in 1..Len(ShapeBodies) : api.shapeCalls[q].reply # None}}

\* the successful ones
created == {post \in postReplies : post[3].status = 200}

\* each created route is what GET /routes/:id answers for its id
retrievable(posts) ==
  \A post \in posts :
    routeGet(api.routeStore, post[3].payload.id) = [status |-> 200, payload |-> post[3].payload]

\* C29: every successfully created route stays retrievable under the id it was
\* returned with: the ids returned to distinct POST /routes/coverage and
\* POST /routes/shape requests are distinct, and GET /routes/:id answers each
\* id with the route of the request that returned it.
C29_CreatedRouteStaysRetrievable ==
  /\ \A one \in created, other \in created :
       one[3].payload.id = other[3].payload.id => one = other
  /\ retrievable(created)
  /\ api.fetched # None =>
       \A post \in created :
         (api.fetched[1].id = post[3].payload.id /\ api.fetched[1].status = 200) =>
           api.fetched[1].payload \in {other[3].payload : other \in created}

\* the same for the routes whose id no other created route has
C29_RetrievableWhenIdsDistinct ==
  retrievable({post \in created :
                 \A other \in created :
                   other[3].payload.id = post[3].payload.id => other = post})

\* a coverage route and a shape route were created with one id, and a GET of
\* that id was answered
C29_TwoRoutesOneId ==
  /\ \E one \in created, other \in created :
       /\ one[1] = "coverage"
       /\ other[1] = "shape"
       /\ one[3].payload.id = other[3].payload.id
       /\ api.fetched # None
       /\ api.fetched[1].id = one[3].payload.id
       /\ api.fetched[1].status = 200
  /\ Len(api.routeStore) = 1

(***************************************************************************)
(* The claim on the adjacency index and the edge map of a built graph.     *)
(***************************************************************************)
\* the traversable edge has the endpoints (forward or reverse), the length and
\* the street name of the road edge
traversalOf(traversable, edge) ==
  /\ \/ traversable.fromNodeId = edge.fromNodeId /\ traversable.toNodeId = edge.toNodeId
     \/ traversable.fromNodeId = edge.toNodeId /\ traversable.toNodeId = edge.fromNodeId
  /\ traversable.lengthMeters = edge.lengthMeters
  /\ traversable.streetName = edge.streetName

indexAgreesWithEdgeMap(graph) ==
  \A traversable \in AllTraversable(graph) :
    /\ MapHas(graph.edges, traversable.edgeId)
    /\ traversalOf(traversable, MapGet(graph.edges, traversable.edgeId))

edgeIdsDistinct(edges) ==
  \A i \in 1..Len(edges), j \in 1..Len(edges) : edges[i].id = edges[j].id => i = j

\* C30: for every graph built by createRoadGraph, also from edges that repeat
\* an id, every traversable edge of the adjacency index has the endpoints
\* (forward or reverse), the length and the street name of the road edge the
\* edge map holds under its edgeId.
C30_IndexAgreesWithEdgeMap == build.pc # "input" => indexAgreesWithEdgeMap(build.graph)

\* the same for edge lists whose ids are distinct
C30_AgreesWhenIdsDistinct ==
  (build.pc # "input" /\ edgeIdsDistinct(build.edges)) => indexAgreesWithEdgeMap(build.graph)

\* a graph was built from two edges with one id: the edge map holds one of
\* them, the index the traversable edges of both
C30_RepeatedEdgeId ==
  /\ build.pc = "built"
  /\ ~edgeIdsDistinct(build.edges)
  /\ Len(build.graph.edges) < Len(build.edges)
  /\ Cardinality({t \in AllTraversable(build.graph) : t.edgeId = "k1"}) >= 3

====
